---- MODULE Spec2Model ----
(***************************************************************************)
(* Verification model of the Auto-Claude task daemon (services/task_daemon)*)
(* and of the spec factory's batch dependency resolution                   *)
(* (services/spec_factory.py).                                             *)
(*                                                                         *)
(* Strings of the program (spec IDs, dependency references, task           *)
(* descriptions) are modelled as sequences of one-character strings, so    *)
(* that prefix tests, digit extraction, padding and slugification are      *)
(* computed, not assumed.                                                  *)
(***************************************************************************)
EXTENDS Integers, Sequences, FiniteSets, TLC

VARIABLES
    started,          \* start() has run _scan_existing_tasks and started the threads
    stop_state,       \* "no" | "flag" (stop_event set) | "done" (stop() returned)
    plan,             \* implementation_plan.json of every spec directory
    task_queue,       \* TaskDaemon.task_queue
    running_tasks,    \* TaskDaemon.running_tasks: spec id -> TaskState
    completed_set,    \* StateManager._completed_set
    recovery_counts,  \* DaemonState.recovery_counts
    proc,             \* the child process last spawned for each spec
    reader,           \* position of the Output-<spec> thread of that process
    sched,            \* position and local variables of the scheduler thread
    checker,          \* position and local variables of the stuck-checker thread
    clock,            \* source of QueuedTask.queued_at
    kills,            \* history: number of live processes killed by recovery per spec
    ext_writes,       \* number of plan-file rewrites done by actors outside the daemon
    batch,            \* one call of SpecFactory.create_batch_specs: input and result
    spec_dirs,        \* .auto-claude/specs as the depth guards see it: one record per directory
    tool_calls,       \* create_batch_child_specs calls in progress, one per agent session
    batch_creators,   \* history: per parent spec, the batch calls that created a directory
    tree,             \* the MCTSTree: nodes by id, best_node_id, total_iterations
    score_history,    \* history: the backpropagate calls made, in order
    mcts,             \* run_mcts_search: position, budget, nodes of the round, spec directories
    files,            \* content of the plan, status and state files and of their temp files
    writers,          \* the threads and processes that write those files: position, open file
    mem_version,      \* version of the DaemonState in memory (one per mutation)
    last_errors,      \* DaemonState.last_errors: the last error recorded per spec
    watcher,          \* SpecsWatcher: the _observer attribute, the observer, the stop calls
    handler,          \* SpecsEventHandler: time, _last_events, the callbacks made
    verify,           \* the verify specs and the _auto_queue_verify calls in progress
    dep_check,        \* one call of StateManager._is_dep_met: input and result
    factory,          \* SpecFactory: the spec directories and the create_child_spec calls
    fn_call,          \* one call of a function taken on its own: input, position, result
    status_writer,    \* write_status_loop and the _status_dirty event it waits on
    all_complete      \* the tasks and threads around _check_all_complete

daemonVars == <<started, stop_state, plan, task_queue, running_tasks, completed_set,
                recovery_counts, proc, reader, sched, checker, clock, kills, ext_writes,
                last_errors>>

childVars == <<spec_dirs, tool_calls, batch_creators>>

mctsVars == <<tree, score_history, mcts>>

fileVars == <<files, writers, mem_version>>

loopVars == <<status_writer, all_complete>>

pureVars == <<dep_check, factory, fn_call, loopVars>>

auxVars == <<watcher, handler, verify, pureVars>>

toolVars == <<childVars, mctsVars, fileVars, auxVars>>

vars == <<daemonVars, batch, toolVars>>

(***************************************************************************)
(* Bounds of the model                                                     *)
(***************************************************************************)
\* number of enqueue operations explored (each takes one clock value)
MaxClock == 4
\* number of plan-file rewrites by external actors explored
MaxExtWrites == 1
\* TaskDaemon(max_recovery=...): the daemon of the model gives up after one
\* recovery (DaemonConfig.MAX_RECOVERY_ATTEMPTS is 3)
max_recovery == 1

\* TaskDaemon(max_concurrent_tasks=...): DaemonConfig.MAX_CONCURRENT_TASKS
max_concurrent_tasks == 1

(***************************************************************************)
(* Strings                                                                 *)
(***************************************************************************)
Digits == {"0", "1", "2", "3", "4", "5", "6", "7", "8", "9"}

StartsWith(s, p) == Len(p) <= Len(s) /\ SubSeq(s, 1, Len(p)) = p

\* str.lower() on the alphabet of the model
LowerChar(c) == CASE c = "A" -> "a" [] c = "B" -> "b" [] c = "C" -> "c" [] OTHER -> c

Lower(s) == [i \in 1..Len(s) |-> LowerChar(s[i])]

\* number of leading decimal digits: the group of re.match(r"^(\d+)", s)
RECURSIVE DigitRun(_, _)
DigitRun(s, i) == IF i <= Len(s) /\ s[i] \in Digits THEN DigitRun(s, i + 1) ELSE i - 1

LeadingDigits(s) == SubSeq(s, 1, DigitRun(s, 1))

\* str.zfill(3)
ZFill3(s) == IF Len(s) >= 3 THEN s
             ELSE [i \in 1..(3 - Len(s)) |-> "0"] \o s

(***************************************************************************)
(* types.py: status classes                                                *)
(***************************************************************************)
QUEUE_STATUSES == {"queue", "backlog", "queued"}
RUNNING_STATUSES == {"in_progress", "ai_review", "human_review"}
COMPLETED_STATUSES == {"done", "completed", "merged", "pr_created"}
ERROR_STATUSES == {"error", "failed", "stuck"}
NO_START_STATUSES == RUNNING_STATUSES \cup COMPLETED_STATUSES \cup ERROR_STATUSES

(***************************************************************************)
(* The spec directories of the model                                       *)
(***************************************************************************)
SpecA == <<"0", "0", "1", "-", "a">>
SpecB == <<"0", "0", "2", "-", "b">>
SpecC == <<"0", "0", "3", "-", "c">>
Specs == {SpecA, SpecB, SpecC}

\* sorted(self.specs_dir.iterdir())
SpecOrder == <<SpecA, SpecB, SpecC>>

\* dependency references a plan may carry
RefBareNumber == <<"0", "0", "1">>
RefDangling == <<"0", "0", "9", "-", "z">>

NoTask == [spec_id |-> <<>>, priority |-> 0, depends_on |-> <<>>, queued_at |-> 0]

(***************************************************************************)
(* state.py: StateManager                                                  *)
(***************************************************************************)
IsDepMet(dep, completed) ==
    \/ dep \in completed
    \/ /\ LeadingDigits(dep) # <<>>
       /\ LET prefix == ZFill3(LeadingDigits(dep))
              dep_lower == Lower(dep)
          IN \E c \in completed :
                /\ StartsWith(Lower(c), prefix \o <<"-">>)
                /\ \/ StartsWith(Lower(c), dep_lower)
                   \/ dep_lower = prefix
    \/ /\ Len(dep) >= 3
       /\ \E c \in completed : StartsWith(Lower(c), Lower(dep))

\* a state store that takes every dependency list as met
AreDependenciesMetUnchecked(depends_on, completed) == TRUE

AreDependenciesMet(depends_on, completed) ==
    \A i \in 1..Len(depends_on) : IsDepMet(depends_on[i], completed)

(***************************************************************************)
(* types.py: QueuedTask, and the queue of TaskDaemon                       *)
(***************************************************************************)
\* an ordering that prefers the higher priority value
QueuedTaskLtReversed(a, b) ==
    IF a.priority # b.priority THEN a.priority > b.priority
    ELSE a.queued_at < b.queued_at

\* QueuedTask.__lt__
QueuedTaskLt(a, b) ==
    IF a.priority # b.priority THEN a.priority < b.priority
    ELSE a.queued_at < b.queued_at

\* list.sort() is stable and compares with __lt__ only: an element moves left
\* past exactly the elements it is less than
RECURSIVE InsertPos(_, _, _)
InsertPos(q, x, j) ==
    IF j > 0 /\ QueuedTaskLt(x, q[j]) THEN InsertPos(q, x, j - 1) ELSE j

InsertStable(q, x) ==
    LET j == InsertPos(q, x, Len(q))
    IN SubSeq(q, 1, j) \o <<x>> \o SubSeq(q, j + 1, Len(q))

RECURSIVE SortFrom(_, _, _)
SortFrom(q, i, acc) ==
    IF i > Len(q) THEN acc ELSE SortFrom(q, i + 1, InsertStable(acc, q[i]))

SortQueue(q) == SortFrom(q, 1, <<>>)

InQueue(q, s) == \E i \in 1..Len(q) : q[i].spec_id = s

\* the QueuedTask that _enqueue_task builds from a plan
MakeQueuedTask(s, pl, now) ==
    [spec_id |-> s, priority |-> pl.priority, depends_on |-> pl.dependsOn,
     queued_at |-> now]

\* _enqueue_task: append, then sort
EnqueueTask(q, s, pl, now) == SortQueue(Append(q, MakeQueuedTask(s, pl, now)))

\* list.pop(idx)
PopAt(q, idx) == SubSeq(q, 1, idx - 1) \o SubSeq(q, idx + 1, Len(q))

\* a scan that looks at the head of the queue only
ScanQueueHeadOnly(q, pl, i, comp, stale, ready) ==
    [completed |-> comp, stale |-> stale,
     ready |-> IF /\ q # <<>>
                  /\ pl[q[1].spec_id].status \notin NO_START_STATUSES
                  /\ \A k \in 1..Len(q[1].depends_on) : IsDepMet(q[1].depends_on[k], comp)
               THEN 1 ELSE 0]

\* _get_next_ready_task, the scan: indices are 1-based, ready = 0 is None
RECURSIVE ScanQueue(_, _, _, _, _, _)
ScanQueue(q, pl, i, comp, stale, ready) ==
    IF i > Len(q) THEN [completed |-> comp, stale |-> stale, ready |-> ready]
    ELSE LET task == q[i]
             status == pl[task.spec_id].status
         IN IF status \in COMPLETED_STATUSES
            THEN ScanQueue(q, pl, i + 1, comp \cup {task.spec_id}, stale \cup {i}, ready)
            ELSE IF status \in NO_START_STATUSES
            THEN ScanQueue(q, pl, i + 1, comp, stale, ready)
            ELSE IF ready = 0 /\ AreDependenciesMet(task.depends_on, comp)
            THEN ScanQueue(q, pl, i + 1, comp, stale, i)
            ELSE ScanQueue(q, pl, i + 1, comp, stale, ready)

\* the ready index after one stale entry at idx was popped
AdjustReady(ready, idx) == IF ready # 0 /\ idx < ready THEN ready - 1 ELSE ready

\* _get_next_ready_task, the removal of the stale entries in reverse order
RECURSIVE RemoveStale(_, _, _, _)
RemoveStale(q, stale, ready, idx) ==
    IF idx = 0 THEN [queue |-> q, ready |-> ready]
    ELSE IF idx \in stale
         THEN RemoveStale(PopAt(q, idx), stale, AdjustReady(ready, idx), idx - 1)
         ELSE RemoveStale(q, stale, ready, idx - 1)

GetNextReadyTask(q, pl, comp) ==
    LET scan == ScanQueue(q, pl, 1, comp, {}, 0)
        rem == RemoveStale(q, scan.stale, scan.ready, Len(q))
    IN IF rem.ready # 0
       THEN [queue |-> PopAt(rem.queue, rem.ready), completed |-> scan.completed,
             task |-> rem.queue[rem.ready]]
       ELSE [queue |-> rem.queue, completed |-> scan.completed, task |-> NoTask]

\* _should_queue_task
ShouldQueueTask(status, s, counts) ==
    /\ status \notin NO_START_STATUSES
    /\ status \in QUEUE_STATUSES
    /\ counts[s] < max_recovery

(***************************************************************************)
(* Helpers on dictionaries                                                 *)
(***************************************************************************)
DictPut(f, k, v) == [x \in DOMAIN f \cup {k} |-> IF x = k THEN v ELSE f[x]]
DictDel(f, k) == [x \in DOMAIN f \ {k} |-> f[x]]
EmptyDict == [x \in {} |-> 0]

\* _update_plan_status: status, and lastError when an error message is given
UpdatePlanStatus(pl, s, status, error_message) ==
    [pl EXCEPT ![s].status = status,
               ![s].lastError = IF error_message # "" THEN error_message ELSE @]

(***************************************************************************)
(* spec_factory.py: SpecFactory, batch creation and reference resolution   *)
(***************************************************************************)
\* slug = slug.strip('-')[:50]
SlugLimit == 50

DigitSeq == <<"0", "1", "2", "3", "4", "5", "6", "7", "8", "9">>

DigitVal(c) == CHOOSE n \in 0..9 : DigitSeq[n + 1] = c

\* f"{n}"
RECURSIVE Decimal(_)
Decimal(n) == IF n < 10 THEN <<DigitSeq[n + 1]>>
              ELSE Decimal(n \div 10) \o <<DigitSeq[(n % 10) + 1]>>

\* f"{n:03d}": at least three digits, more when the number needs them
Pad3(n) == ZFill3(Decimal(n))

\* f"{n}" for n < 1000
RECURSIVE StripZeros(_)
StripZeros(s) == IF Len(s) > 1 /\ Head(s) = "0" THEN StripZeros(Tail(s)) ELSE s

NatToStr(n) == StripZeros(Pad3(n))

Take(s, n) == SubSeq(s, 1, IF n < Len(s) THEN n ELSE Len(s))

\* the characters of the model's alphabet in [a-z0-9\s-]
IsSlugChar(c) == c \in {"a", "b", "c", " ", "-"} \cup Digits

\* re.sub(r'[\s_]+', '-', s)
RECURSIVE WhitespaceToDash(_)
WhitespaceToDash(s) ==
    IF s = <<>> THEN <<>>
    ELSE IF Head(s) \in {" ", "_"}
         THEN IF Len(s) > 1 /\ s[2] \in {" ", "_"}
              THEN WhitespaceToDash(Tail(s))
              ELSE <<"-">> \o WhitespaceToDash(Tail(s))
         ELSE <<Head(s)>> \o WhitespaceToDash(Tail(s))

\* re.sub(r'-+', '-', s)
RECURSIVE CollapseDashes(_)
CollapseDashes(s) ==
    IF s = <<>> THEN <<>>
    ELSE IF Head(s) = "-" /\ Len(s) > 1 /\ s[2] = "-"
         THEN CollapseDashes(Tail(s))
         ELSE <<Head(s)>> \o CollapseDashes(Tail(s))

\* str.strip('-')
RECURSIVE StripDashes(_)
StripDashes(s) ==
    IF s # <<>> /\ Head(s) = "-" THEN StripDashes(Tail(s))
    ELSE IF s # <<>> /\ s[Len(s)] = "-" THEN StripDashes(SubSeq(s, 1, Len(s) - 1))
    ELSE s

\* the slug of a task description, before truncation
TaskSlug(task) ==
    StripDashes(CollapseDashes(WhitespaceToDash(SelectSeq(Lower(task), IsSlugChar))))

\* the largest 3-digit prefix among the directory names
MaxNum(dirs) ==
    LET nums == {100 * DigitVal(d[1]) + 10 * DigitVal(d[2]) + DigitVal(d[3]) :
                   d \in {x \in dirs : Len(x) >= 3 /\ \A i \in 1..3 : x[i] \in Digits}}
    IN IF nums = {} THEN 0 ELSE CHOOSE n \in nums : \A m \in nums : m <= n

\* _generate_spec_id
GenerateSpecId(task, dirs) ==
    Pad3(MaxNum(dirs) + 1) \o <<"-">> \o Take(TaskSlug(task), SlugLimit)

\* re.sub(r'^\d+-', '', s)
StripNumber(s) ==
    LET n == DigitRun(s, 1)
    IN IF n >= 1 /\ Len(s) > n /\ s[n + 1] = "-" THEN SubSeq(s, n + 2, Len(s)) ELSE s

\* sub in s
Contains(s, sub) ==
    \E i \in 0..(Len(s) - Len(sub)) : SubSeq(s, i + 1, i + Len(sub)) = sub

\* the keys _resolve_batch_dependencies registers for the child at 1-based
\* position k, in the order of registration
RegisteredKeys(k, actual_id, task) ==
    LET actual_slug == StripNumber(actual_id)
        task_slug == TaskSlug(task)
    IN <<Pad3(k + 1), NatToStr(k), actual_id>>
       \o (IF actual_slug # <<>> THEN <<actual_slug>> ELSE <<>>)
       \o (IF task_slug # <<>> THEN <<Pad3(k + 1) \o <<"-">> \o task_slug>> ELSE <<>>)

\* ref_to_actual[key] = actual_id for each key in turn
RECURSIVE PutAll(_, _, _)
PutAll(map, keys, actual_id) ==
    IF keys = <<>> THEN map
    ELSE PutAll(DictPut(map, Head(keys), actual_id), Tail(keys), actual_id)

\* the mapping built by the first loop of _resolve_batch_dependencies
RECURSIVE BuildRefToActual(_, _, _, _)
BuildRefToActual(map, specs, created_specs, k) ==
    IF k > Len(created_specs) THEN map
    ELSE BuildRefToActual(
            PutAll(map, RegisteredKeys(k, created_specs[k], specs[k].task), created_specs[k]),
            specs, created_specs, k + 1)

\* _resolve_single_dep, step 3: the created spec with the best slug score, 0 if
\* none; score = len(dep_slug) / max(len(actual_slug), 1), kept when > 0.3
RECURSIVE BestSlugMatch(_, _, _, _)
BestSlugMatch(dep_slug, created_specs, k, best) ==
    IF k > Len(created_specs) THEN best
    ELSE LET actual_slug == Lower(StripNumber(created_specs[k]))
             len == IF Len(actual_slug) > 1 THEN Len(actual_slug) ELSE 1
             best_len == IF best = 0 THEN 0
                         ELSE LET b == Lower(StripNumber(created_specs[best]))
                              IN IF Len(b) > 1 THEN Len(b) ELSE 1
             better == best = 0 \/ Len(dep_slug) * best_len > Len(dep_slug) * len
         IN IF (Contains(actual_slug, dep_slug) \/ StartsWith(actual_slug, dep_slug))
               /\ better
            THEN BestSlugMatch(dep_slug, created_specs, k + 1, k)
            ELSE BestSlugMatch(dep_slug, created_specs, k + 1, best)

\* _resolve_single_dep
ResolveSingleDep(dep_ref, ref_to_actual, created_specs) ==
    LET num_str == LeadingDigits(dep_ref)
        padded == ZFill3(num_str)
        dep_slug == Lower(StripNumber(dep_ref))
        best == IF dep_slug = <<>> THEN 0
                ELSE BestSlugMatch(dep_slug, created_specs, 1, 0)
        best_len == IF best = 0 THEN 1
                    ELSE LET b == Lower(StripNumber(created_specs[best]))
                         IN IF Len(b) > 1 THEN Len(b) ELSE 1
    IN IF dep_ref \in DOMAIN ref_to_actual THEN ref_to_actual[dep_ref]
       ELSE IF num_str # <<>> /\ padded \in DOMAIN ref_to_actual THEN ref_to_actual[padded]
       ELSE IF num_str # <<>> /\ num_str \in DOMAIN ref_to_actual THEN ref_to_actual[num_str]
       ELSE IF best # 0 /\ 10 * Len(dep_slug) > 3 * best_len THEN created_specs[best]
       ELSE dep_ref

\* the dependsOn written to the plan of every created child
ResolveBatchDependencies(specs, created_specs) ==
    LET ref_to_actual == BuildRefToActual(EmptyDict, specs, created_specs, 1)
    IN [k \in 1..Len(created_specs) |->
          [p \in 1..Len(specs[k].depends_on) |->
              ResolveSingleDep(specs[k].depends_on[p], ref_to_actual, created_specs)]]

\* task descriptions and dependency references a planner passes in the model
TaskA == <<"a">>
TaskAUpper == <<"A">>
TaskABang == <<"a", "!">>
TaskB == <<"b", " ", "a">>
TaskOne == <<"1">>
TaskBang == <<"!">>
TaskEmpty == <<>>
Tasks == {TaskA, TaskAUpper, TaskABang, TaskB, TaskOne, TaskBang, TaskEmpty}

DepRefs == {<<"0", "0", "2">>, <<"1">>, <<"2">>, <<"a">>, <<"b">>,
            <<"0", "0", "2", "-", "a">>, <<"0", "0", "3", "-", "a">>,
            <<"0", "0", "2", "-", "b">>, <<"2", "-", "z">>, <<"z", "z">>}

\* the spec directories that exist before the batch: the parent, or the
\* parent and one more spec
ParentDir == <<"0", "0", "1", "-", "d">>
OtherDir == <<"0", "0", "2", "-", "x">>
ExistingDirs == {{ParentDir}, {ParentDir, OtherDir}}

\* the plans the spec directories hold when the daemon is constructed
InitialPlans ==
    { [s \in Specs |->
         [status |-> "queue", lastError |-> "",
          priority |-> IF s = SpecA THEN pa ELSE IF s = SpecB THEN pb ELSE 2,
          dependsOn |-> IF s = SpecB THEN db ELSE <<>>]] :
      pa \in {2}, pb \in {1},
      db \in {<<RefBareNumber>>} }
    \cup
    { [s \in Specs |->
         [status |-> IF s = SpecC THEN "done" ELSE "queue", lastError |-> "",
          priority |-> 1,
          dependsOn |-> IF s = SpecB THEN <<RefDangling>> ELSE <<>>]] }

\* statuses written to a plan file by actors outside the daemon: a user or UI
\* putting a task (back) in the queue, an agent or another process closing it
ExternalStatuses == {"queue", "done", "complete"}

\* no batch creation is under way
NoBatch == [pc |-> "off", dirs |-> {}, specs |-> <<>>, next |-> 0,
            valid_spec_defs |-> <<>>, created_specs |-> <<>>, dependsOn |-> <<>>]

NoEntry == [spec |-> <<>>, current |-> FALSE]
SchedIdle == [pc |-> "idle", task |-> NoTask]
CheckerAt(pc, todo) == [pc |-> pc, todo |-> todo, cur |-> NoEntry, count |-> 0]

DaemonInit ==
    /\ started = FALSE
    /\ stop_state = "no"
    /\ plan \in InitialPlans
    /\ task_queue = <<>>
    /\ running_tasks = EmptyDict
    /\ completed_set = {}
    /\ recovery_counts = [s \in Specs |-> 0]
    /\ proc = [s \in Specs |-> "none"]
    /\ reader = [s \in Specs |-> "none"]
    /\ sched = SchedIdle
    /\ checker = CheckerAt("idle", {})
    /\ clock = 0
    /\ kills = [s \in Specs |-> 0]
    /\ ext_writes = 0
    /\ last_errors = [s \in Specs |-> ""]

\* the agent tools are not in use
ChildOff == spec_dirs = <<>> /\ tool_calls = <<>> /\ batch_creators = <<>>

\* no MCTS search is running
MctsOff == tree = <<>> /\ score_history = <<>> /\ mcts = <<>>

\* no file write is modelled
FilesOff == files = <<>> /\ writers = <<>> /\ mem_version = 0

\* no watcher and no verify synthesis is modelled
LoopOff == status_writer = <<>> /\ all_complete = <<>>

PureOff == dep_check = <<>> /\ factory = <<>> /\ fn_call = <<>> /\ LoopOff

AuxOff == watcher = <<>> /\ handler = <<>> /\ verify = <<>> /\ PureOff

ToolsOff == ChildOff /\ MctsOff /\ FilesOff /\ AuxOff

Init == DaemonInit /\ batch = NoBatch /\ ToolsOff

(***************************************************************************)
(* start(): _scan_existing_tasks                                           *)
(***************************************************************************)
RECURSIVE ScanExisting(_, _, _, _, _)
ScanExisting(order, pl, q, comp, clk) ==
    IF order = <<>> THEN [queue |-> q, completed |-> comp, clock |-> clk]
    ELSE LET s == Head(order)
             status == pl[s].status
         IN IF status \in QUEUE_STATUSES
            THEN ScanExisting(Tail(order), pl, EnqueueTask(q, s, pl[s], clk + 1),
                              comp, clk + 1)
            ELSE IF status \in COMPLETED_STATUSES
            THEN ScanExisting(Tail(order), pl, q, comp \cup {s}, clk)
            ELSE ScanExisting(Tail(order), pl, q, comp, clk)

StartDaemon ==
    /\ ~started
    /\ stop_state = "no"
    /\ LET r == ScanExisting(SpecOrder, plan, task_queue, completed_set, clock)
       IN /\ task_queue' = r.queue
          /\ completed_set' = r.completed
          /\ clock' = r.clock
    /\ started' = TRUE
    /\ UNCHANGED <<toolVars, batch, last_errors, stop_state, plan, running_tasks, recovery_counts, proc,
                   reader, sched, checker, kills, ext_writes>>

(***************************************************************************)
(* Actors outside the daemon                                               *)
(***************************************************************************)
\* a plan file is rewritten with another status: the agent of a live process
\* closes its plan, a user puts a task that is not running back in the queue
ExternalWrite(s, status) ==
    /\ ext_writes < MaxExtWrites
    /\ plan[s].status # status
    /\ IF proc[s] = "alive"
       THEN status \in {"complete", "done"}
       ELSE status = "queue" /\ started /\ proc[s] = "none"
    /\ plan' = [plan EXCEPT ![s].status = status]
    /\ ext_writes' = ext_writes + 1
    /\ UNCHANGED <<toolVars, batch, last_errors, started, stop_state, task_queue, running_tasks, completed_set,
                   recovery_counts, proc, reader, sched, checker, clock, kills>>

(***************************************************************************)
(* Watcher thread: _on_spec_change                                         *)
(***************************************************************************)
OnSpecChange(s) ==
    /\ started
    /\ stop_state = "no"
    /\ s \notin DOMAIN running_tasks
    /\ ~InQueue(task_queue, s)
    /\ ShouldQueueTask(plan[s].status, s, recovery_counts)
    /\ clock < MaxClock
    /\ task_queue' = EnqueueTask(task_queue, s, plan[s], clock + 1)
    /\ clock' = clock + 1
    /\ UNCHANGED <<toolVars, batch, last_errors, started, stop_state, plan, running_tasks, completed_set,
                   recovery_counts, proc, reader, sched, checker, kills, ext_writes>>

(***************************************************************************)
(* Scheduler thread: _scheduler_loop, _start_task                          *)
(***************************************************************************)
\* a scheduler that does not wait for a slot
HasFreeSlotAlways(rt) == TRUE

\* the inner loop waits while len(running_tasks) >= max_concurrent_tasks
HasFreeSlot(rt) == Cardinality(DOMAIN rt) < max_concurrent_tasks

\* what the executor does for a task that is started: "none" build_command
\* gives no command, "error" spawn_process raises, "spawned" the child runs
Outcomes == {"none", "error", "spawned"}

\* what _start_task does with the task before it builds a command
StartDecision(s, pl, rt) ==
    IF s \in DOMAIN rt THEN "skip"
    ELSE IF pl[s].status \in COMPLETED_STATUSES THEN "completed"
    ELSE IF pl[s].status \notin QUEUE_STATUSES \cup {"in_progress"} THEN "skip"
    ELSE "start"

\* the TaskState objects the stuck checker holds for s belong to an earlier
\* process once a new process is spawned for s
Outdate(chk, s) ==
    [chk EXCEPT !.todo = {IF e.spec = s THEN [e EXCEPT !.current = FALSE] ELSE e : e \in @},
                !.cur = IF @.spec = s THEN [@ EXCEPT !.current = FALSE] ELSE @]

\* one pass of the inner loop with a free slot: _get_next_ready_task under the
\* lock, then _start_task up to the outcome of spawn_process.
\* The model holds one process and one reader thread per spec: a process is
\* spawned for a spec once the reader thread of its previous process has ended.
SchedulerPick(outcome) ==
    /\ started
    /\ stop_state = "no"
    /\ sched.pc = "idle"
    /\ HasFreeSlot(running_tasks)
    /\ LET r == GetNextReadyTask(task_queue, plan, completed_set)
           s == r.task.spec_id
           decision == IF r.task = NoTask THEN "nothing"
                       ELSE StartDecision(s, plan, running_tasks)
       IN /\ task_queue' = r.queue
          /\ completed_set' = IF decision = "completed" THEN r.completed \cup {s}
                              ELSE r.completed
          /\ IF decision = "start" /\ outcome = "spawned"
             THEN /\ reader[s] = "none"
                  /\ proc' = [proc EXCEPT ![s] = "alive"]
                  /\ sched' = [pc |-> "register", task |-> r.task]
                  /\ checker' = Outdate(checker, s)
             ELSE /\ proc' = proc
                  /\ sched' = [pc |-> "idle", task |-> r.task]
                  /\ checker' = checker
          \* spawn_process raised: record_error(spec_id, str(e))
          /\ last_errors' = IF decision = "start" /\ outcome = "error"
                             THEN [last_errors EXCEPT ![s] = "spawn failed"]
                             ELSE last_errors
          /\ decision = "start" \/ outcome = "spawned"
    /\ UNCHANGED <<toolVars, batch, started, stop_state, plan, running_tasks, recovery_counts,
                   reader, clock, kills, ext_writes>>

\* running_tasks[spec_id] = state under the lock, plan to in_progress, reader started
RegisterTask ==
    /\ sched.pc = "register"
    /\ LET s == sched.task.spec_id
       IN /\ running_tasks' = DictPut(running_tasks, s, [recovering |-> FALSE])
          /\ plan' = UpdatePlanStatus(plan, s, "in_progress", "")
          /\ reader' = [reader EXCEPT ![s] = "reading"]
    /\ sched' = [sched EXCEPT !.pc = "idle"]
    /\ UNCHANGED <<toolVars, batch, last_errors, started, stop_state, task_queue, completed_set, recovery_counts,
                   proc, checker, clock, kills, ext_writes>>

(***************************************************************************)
(* Output reader thread of a spec: _read_output                            *)
(***************************************************************************)
\* readline returns EOF: the child ended by itself with an exit code, or it was
\* killed and its stdout closed. Under the lock the thread returns if the task
\* is being recovered.
ReaderEOF(s, code) ==
    /\ reader[s] = "reading"
    /\ \/ proc[s] = "alive" /\ code \in {"exit0", "exit1"}
       \/ proc[s] = "killed" /\ code = "killed"
    /\ IF s \in DOMAIN running_tasks /\ running_tasks[s].recovering
       THEN /\ reader' = [reader EXCEPT ![s] = "none"]
            /\ proc' = [proc EXCEPT ![s] = "none"]
       ELSE /\ reader' = [reader EXCEPT ![s] = "wait"]
            /\ proc' = [proc EXCEPT ![s] = code]
    /\ UNCHANGED <<toolVars, batch, last_errors, started, stop_state, plan, task_queue, running_tasks, completed_set,
                   recovery_counts, sched, checker, clock, kills, ext_writes>>

\* the plan status a successful exit leaves: "complete" and "done" are kept
SuccessStatus(current_status) ==
    IF current_status \notin {"complete", "done"} THEN "human_review" ELSE current_status

\* process.wait(), then the completion logic under the lock
ReaderComplete(s) ==
    /\ reader[s] = "wait"
    /\ IF s \in DOMAIN running_tasks
       THEN IF proc[s] = "exit0"
            THEN /\ recovery_counts' = [recovery_counts EXCEPT ![s] = 0]
                 /\ last_errors' = [last_errors EXCEPT ![s] = ""]
                 /\ completed_set' = completed_set \cup {s}
                 /\ plan' = [plan EXCEPT ![s].status = SuccessStatus(@)]
                 /\ running_tasks' = DictDel(running_tasks, s)
            ELSE IF plan[s].status = "complete"
            THEN /\ completed_set' = completed_set \cup {s}
                 /\ running_tasks' = DictDel(running_tasks, s)
                 /\ UNCHANGED <<recovery_counts, plan, last_errors>>
            ELSE /\ last_errors' = [last_errors EXCEPT ![s] = "Exit code"]
                 /\ plan' = UpdatePlanStatus(plan, s, "error", "")
                 /\ running_tasks' = DictDel(running_tasks, s)
                 /\ UNCHANGED <<recovery_counts, completed_set>>
       ELSE UNCHANGED <<recovery_counts, completed_set, plan, running_tasks, last_errors>>
    /\ reader' = [reader EXCEPT ![s] = "none"]
    /\ proc' = [proc EXCEPT ![s] = "none"]
    /\ UNCHANGED <<toolVars, batch, started, stop_state, task_queue, sched, checker, clock, kills,
                   ext_writes>>

(***************************************************************************)
(* Stuck-checker thread: _stuck_checker_loop, _check_stuck_tasks,          *)
(* _recover_task, _kill_task                                               *)
(***************************************************************************)
\* the thread moves on to the next collected task, or back to its interval wait
CheckerNext(todo) == IF todo = {} THEN "idle" ELSE "recover"

\* _check_stuck_tasks under the lock: the running tasks whose process is alive
\* and whose last_update is older than stuck_timeout are collected with their
\* TaskState (elapsed time is not modelled: any live running task may be stuck)
CheckStuckTasks(stuck) ==
    /\ started
    /\ stop_state = "no"
    /\ checker.pc = "idle"
    /\ stuck # {}
    /\ stuck \subseteq {s \in DOMAIN running_tasks : proc[s] = "alive"}
    /\ checker' = CheckerAt("recover", {[spec |-> s, current |-> TRUE] : s \in stuck})
    /\ UNCHANGED <<toolVars, batch, last_errors, started, stop_state, plan, task_queue, running_tasks, completed_set,
                   recovery_counts, proc, reader, sched, clock, kills, ext_writes>>

\* whether recovery gives up on a task with this incremented count
RecoveryExhausted(count) == count > max_recovery

\* _kill_task on a TaskState: its process, if still alive, is killed and its
\* stdout closed
KillProcess(pr, e) ==
    IF e.current /\ pr[e.spec] = "alive" THEN [pr EXCEPT ![e.spec] = "killed"] ELSE pr

\* state.recovering = True on the collected TaskState object
SetRecovering(rt, e) ==
    IF e.current /\ e.spec \in DOMAIN rt
    THEN [rt EXCEPT ![e.spec].recovering = TRUE] ELSE rt

\* _recover_task up to the cleanup wait: the count is incremented; above
\* max_recovery the plan becomes error and the entry is popped, else the task
\* is flagged as recovering and its process killed
RecoverTask(e) ==
    /\ checker.pc = "recover"
    /\ e \in checker.todo
    /\ LET s == e.spec
           count == recovery_counts[s] + 1
       IN /\ recovery_counts' = [recovery_counts EXCEPT ![s] = count]
          /\ IF RecoveryExhausted(count)
             THEN /\ plan' = UpdatePlanStatus(plan, s, "error", "Max recovery")
                  /\ running_tasks' = DictDel(running_tasks, s)
                  /\ checker' = CheckerAt(CheckerNext(checker.todo \ {e}),
                                          checker.todo \ {e})
                  /\ UNCHANGED <<proc, kills>>
             ELSE /\ running_tasks' = SetRecovering(running_tasks, e)
                  /\ proc' = KillProcess(proc, e)
                  /\ kills' = IF proc'[s] # proc[s] THEN [kills EXCEPT ![s] = @ + 1]
                              ELSE kills
                  /\ checker' = [pc |-> "cleanup", todo |-> checker.todo \ {e},
                                 cur |-> e, count |-> count]
                  /\ plan' = plan
    /\ UNCHANGED <<toolVars, batch, last_errors, started, stop_state, task_queue, completed_set, reader,
                   sched, clock, ext_writes>>

\* the cleanup wait ends because stop_event is set: recovery is abandoned
RecoverAbort ==
    /\ checker.pc = "cleanup"
    /\ stop_state # "no"
    /\ checker' = CheckerAt(CheckerNext(checker.todo), checker.todo)
    /\ UNCHANGED <<toolVars, batch, last_errors, started, stop_state, plan, task_queue, running_tasks, completed_set,
                   recovery_counts, proc, reader, sched, clock, kills, ext_writes>>

\* the cleanup wait times out: the entry is popped, the plan reset to queue,
\* loaded again and the task enqueued
RecoverRequeue ==
    /\ checker.pc = "cleanup"
    /\ stop_state = "no"
    /\ clock < MaxClock
    /\ LET s == checker.cur.spec
           reset == UpdatePlanStatus(plan, s, "queue", "")
       IN /\ running_tasks' = DictDel(running_tasks, s)
          /\ plan' = reset
          /\ task_queue' = EnqueueTask(task_queue, s, reset[s], clock + 1)
    /\ clock' = clock + 1
    /\ checker' = CheckerAt(CheckerNext(checker.todo), checker.todo)
    /\ UNCHANGED <<toolVars, batch, last_errors, started, stop_state, completed_set, recovery_counts,
                   proc, reader, sched, kills, ext_writes>>

(***************************************************************************)
(* stop()                                                                  *)
(***************************************************************************)
\* stop_event.set()
StopFlag ==
    /\ started
    /\ stop_state = "no"
    /\ stop_state' = "flag"
    /\ UNCHANGED <<toolVars, batch, last_errors, started, plan, task_queue, running_tasks, completed_set,
                   recovery_counts, proc, reader, sched, checker, clock,
                   kills, ext_writes>>

\* after the watcher stop and the bounded joins: every running task whose
\* process is alive is killed under the lock
StopKill ==
    /\ stop_state = "flag"
    /\ stop_state' = "done"
    /\ proc' = [s \in Specs |->
                  IF s \in DOMAIN running_tasks /\ proc[s] = "alive"
                  THEN "killed" ELSE proc[s]]
    /\ UNCHANGED <<toolVars, batch, last_errors, started, plan, task_queue, running_tasks, completed_set,
                   recovery_counts, reader, sched, checker, clock, kills, ext_writes>>

(***************************************************************************)
(* The daemon: all threads and the environment interleaved                 *)
(***************************************************************************)
Next ==
    \/ StartDaemon
    \/ \E s \in Specs, status \in ExternalStatuses : ExternalWrite(s, status)
    \/ \E s \in Specs : OnSpecChange(s)
    \/ \E outcome \in Outcomes : SchedulerPick(outcome)
    \/ RegisterTask
    \/ \E s \in Specs, code \in {"exit0", "exit1", "killed"} : ReaderEOF(s, code)
    \/ \E s \in Specs : ReaderComplete(s)
    \/ \E stuck \in SUBSET Specs : CheckStuckTasks(stuck)
    \/ \E e \in checker.todo : RecoverTask(e)
    \/ RecoverAbort
    \/ RecoverRequeue
    \/ StopFlag
    \/ StopKill

Spec == Init /\ [][Next]_vars

(***************************************************************************)
(* create_batch_specs: one call on a quiet daemon                          *)
(***************************************************************************)
BatchInit ==
    /\ DaemonInit
    /\ ToolsOff
    /\ \E dirs \in ExistingDirs, t1 \in Tasks, t2 \in Tasks,
          d1 \in {<<>>} \cup {<<r>> : r \in {<<"2">>, <<"b">>}},
          d2 \in {<<>>} \cup {<<r>> : r \in DepRefs} :
          batch = [pc |-> "create", dirs |-> dirs,
                   specs |-> <<[task |-> t1, depends_on |-> d1],
                               [task |-> t2, depends_on |-> d2]>>,
                   next |-> 1, valid_spec_defs |-> <<>>, created_specs |-> <<>>,
                   dependsOn |-> <<>>]

\* pass 1, a spec definition without a task: continue
SkipSpecDef ==
    /\ batch.pc = "create"
    /\ batch.next <= Len(batch.specs)
    /\ batch.specs[batch.next].task = <<>>
    /\ batch' = [batch EXCEPT !.next = @ + 1]
    /\ UNCHANGED <<daemonVars, toolVars>>

\* pass 1, create_child_spec with an empty depends_on
CreateChildSpec ==
    /\ batch.pc = "create"
    /\ batch.next <= Len(batch.specs)
    /\ batch.specs[batch.next].task # <<>>
    /\ LET spec_def == batch.specs[batch.next]
           spec_id == GenerateSpecId(spec_def.task, batch.dirs)
       IN batch' = [batch EXCEPT !.next = @ + 1,
                                 !.dirs = @ \cup {spec_id},
                                 !.valid_spec_defs = Append(@, spec_def),
                                 !.created_specs = Append(@, spec_id),
                                 !.dependsOn = Append(@, <<>>)]
    /\ UNCHANGED <<daemonVars, toolVars>>

\* pass 2, _resolve_batch_dependencies on valid_spec_defs and created_specs
ResolveBatch ==
    /\ batch.pc = "create"
    /\ batch.next > Len(batch.specs)
    /\ batch' = [batch EXCEPT
                   !.pc = "done",
                   !.dependsOn = ResolveBatchDependencies(batch.valid_spec_defs,
                                                          batch.created_specs)]
    /\ UNCHANGED <<daemonVars, toolVars>>

BatchNext == SkipSpecDef \/ CreateChildSpec \/ ResolveBatch

BatchSpec == BatchInit /\ [][BatchNext]_vars

(***************************************************************************)
(* The daemon with fair threads: the scheduler, the readers and the stuck  *)
(* checker keep running, every child process ends, every spawn succeeds,   *)
(* nobody rewrites a plan and the daemon is not stopped.  Stuck detection  *)
(* may or may not happen.                                                  *)
(***************************************************************************)
\* stuck detection while the model has queued_at values left for the re-enqueues
LiveCheckStuck(stuck) ==
    /\ clock + Cardinality(stuck) <= MaxClock
    /\ CheckStuckTasks(stuck)

LiveNext ==
    \/ StartDaemon
    \/ SchedulerPick("spawned")
    \/ RegisterTask
    \/ \E s \in Specs, code \in {"exit0", "exit1", "killed"} : ReaderEOF(s, code)
    \/ \E s \in Specs : ReaderComplete(s)
    \/ \E stuck \in SUBSET Specs : LiveCheckStuck(stuck)
    \/ \E e \in checker.todo : RecoverTask(e)
    \/ RecoverRequeue

LiveSpec ==
    /\ Init
    /\ [][LiveNext]_vars
    /\ WF_vars(StartDaemon)
    /\ WF_vars(SchedulerPick("spawned"))
    /\ WF_vars(RegisterTask)
    /\ WF_vars(\E s \in Specs, code \in {"exit0", "exit1", "killed"} : ReaderEOF(s, code))
    /\ WF_vars(\E s \in Specs : ReaderComplete(s))
    /\ WF_vars(\E e \in checker.todo : RecoverTask(e))
    /\ WF_vars(RecoverRequeue)

(***************************************************************************)
(* Child-spec creation with the depth guards                               *)
(* (agents/tools_pkg/tools/subtask.py, mcts/orchestrator.py and the        *)
(* daemon's _auto_queue_verify).  A spec directory is identified by its    *)
(* position in spec_dirs (its creation order); has_plan says whether its   *)
(* implementation_plan.json exists.  create_batch_child_specs is split at  *)
(* the points where another agent session on the same spec directory (a    *)
(* second process) can run: after the guards and before the parent update. *)
(***************************************************************************)
\* number of spec directories explored
MaxSpecDirs == 4

MAX_CHILD_DEPTH == 2
\* for _ in range(10) in _calculate_task_depth
DepthSafetyLimit == 10
MAX_VERIFY_ATTEMPTS == 3

DESIGN_ONLY_TYPES == {"design", "architecture", "mcts"}
IMPL_TASK_TYPES == {"impl", "frontend", "backend", "database", "api"}

\* the task types requested by the agents of the model
RequestedTypes == {"impl", "mcts"}

Sessions == {"s1", "s2"}

NoParent == 0

RECURSIVE DepthWalk(_, _, _)
DepthWalk(dirs, current_dir, fuel) ==
    IF fuel = 0 THEN 0
    ELSE IF current_dir \notin DOMAIN dirs THEN 0
    ELSE IF ~dirs[current_dir].has_plan THEN 0
    ELSE IF dirs[current_dir].parentTask = NoParent THEN 0
    ELSE 1 + DepthWalk(dirs, dirs[current_dir].parentTask, fuel - 1)

CalculateTaskDepthOneStep(dirs, spec_dir) == DepthWalk(dirs, spec_dir, 1)

CalculateTaskDepth(dirs, spec_dir) == DepthWalk(dirs, spec_dir, DepthSafetyLimit)

\* child_depth > MAX_CHILD_DEPTH
DepthExceeded(child_depth) == child_depth > MAX_CHILD_DEPTH

DesignBlockedNever(child_depth, types) == FALSE

\* child_depth >= 2 and a requested task type is in DESIGN_ONLY_TYPES
DesignBlocked(child_depth, types) ==
    child_depth >= 2 /\ types \cap DESIGN_ONLY_TYPES # {}

\* the directory and implementation_plan.json written by SpecFactory.create_child_spec
FactorySpecDir(parent_spec_id, task_type) ==
    [parentTask |-> parent_spec_id, taskType |-> task_type, has_plan |-> TRUE,
     status |-> "queue", childSpecs |-> <<>>, dependsOn |-> {}]

\* the directory and plan written by _auto_queue_verify
VerifySpecDir(spec_id) ==
    [parentTask |-> spec_id, taskType |-> "verify", has_plan |-> TRUE,
     status |-> "queue", childSpecs |-> <<>>, dependsOn |-> {spec_id}]

RECURSIVE CreateAll(_, _, _)
\* pass 1 of create_batch_specs: one create_child_spec per spec definition
CreateAll(dirs, parent_spec_id, types) ==
    IF types = <<>> THEN dirs
    ELSE CreateAll(Append(dirs, FactorySpecDir(parent_spec_id, Head(types))),
                   parent_spec_id, Tail(types))

IdleCall == [pc |-> "idle", result |-> "none", parent |-> NoParent, types |-> <<>>,
             created |-> <<>>]

BatchInputs == {<<"impl">>, <<"mcts">>, <<"impl", "mcts">>}

TypesOf(types) == {types[i] : i \in 1..Len(types)}

ChildInit ==
    /\ DaemonInit
    /\ batch = NoBatch
    /\ MctsOff
    /\ FilesOff
    /\ AuxOff
    /\ \E p \in BOOLEAN :
          spec_dirs = <<[parentTask |-> NoParent, taskType |-> "design", has_plan |-> p,
                         status |-> "in_progress", childSpecs |-> <<>>, dependsOn |-> {}]>>
    /\ tool_calls = [c \in Sessions |-> IdleCall]
    /\ batch_creators = [p \in 1..MaxSpecDirs |-> {}]

\* the create_child_spec tool, called by session c working on spec_dir
ToolCreateChildSpec(c, spec_dir, task_type) ==
    /\ tool_calls[c].pc = "idle"
    /\ spec_dir \in DOMAIN spec_dirs
    /\ Len(spec_dirs) < MaxSpecDirs
    /\ LET child_depth == CalculateTaskDepth(spec_dirs, spec_dir) + 1
           result == IF DepthExceeded(child_depth) THEN "depth"
                     ELSE IF DesignBlocked(child_depth, {task_type}) THEN "design"
                     ELSE "created"
       IN /\ tool_calls' = [tool_calls EXCEPT ![c] =
                              [IdleCall EXCEPT !.result = result, !.parent = spec_dir]]
          /\ spec_dirs' = IF result = "created"
                          THEN Append(spec_dirs, FactorySpecDir(spec_dir, task_type))
                          ELSE spec_dirs
    /\ UNCHANGED <<daemonVars, batch, auxVars, fileVars, batch_creators, mctsVars>>

\* create_batch_child_specs up to the call of create_batch_specs: the
\* idempotency guard on the parent plan, the depth guard and the design guard
BatchToolGuards(c, spec_dir, types) ==
    /\ tool_calls[c].pc = "idle"
    /\ spec_dir \in DOMAIN spec_dirs
    /\ Len(spec_dirs) + Len(types) <= MaxSpecDirs
    /\ LET parent_plan == spec_dirs[spec_dir]
           child_depth == CalculateTaskDepth(spec_dirs, spec_dir) + 1
           result == IF parent_plan.has_plan /\ (parent_plan.status = "complete"
                                                 \/ parent_plan.childSpecs # <<>>)
                     THEN "duplicate"
                     ELSE IF DepthExceeded(child_depth) THEN "depth"
                     ELSE IF DesignBlocked(child_depth, TypesOf(types)) THEN "design"
                     ELSE "none"
       IN tool_calls' = [tool_calls EXCEPT ![c] =
                           [pc |-> IF result = "none" THEN "create" ELSE "idle",
                            result |-> result, parent |-> spec_dir,
                            types |-> IF result = "none" THEN types ELSE <<>>,
                            created |-> <<>>]]
    /\ UNCHANGED <<daemonVars, batch, auxVars, fileVars, spec_dirs, batch_creators, mctsVars>>

\* factory.create_batch_specs(parent_spec_id, specs_list)
BatchToolCreate(c) ==
    /\ tool_calls[c].pc = "create"
    /\ Len(spec_dirs) + Len(tool_calls[c].types) <= MaxSpecDirs
    /\ LET call == tool_calls[c]
           n == Len(spec_dirs)
       IN /\ spec_dirs' = CreateAll(spec_dirs, call.parent, call.types)
          /\ tool_calls' = [tool_calls EXCEPT ![c].pc = "update",
                               ![c].created = [i \in 1..Len(call.types) |-> n + i]]
          /\ batch_creators' = [batch_creators EXCEPT ![call.parent] = @ \cup {c}]
    /\ UNCHANGED <<daemonVars, batch, auxVars, fileVars, mctsVars>>

\* the update of the parent plan: status complete and childSpecs, when the
\* parent has an implementation_plan.json
BatchToolUpdateParent(c) ==
    /\ tool_calls[c].pc = "update"
    /\ LET call == tool_calls[c]
       IN /\ spec_dirs' = IF spec_dirs[call.parent].has_plan
                          THEN [spec_dirs EXCEPT ![call.parent].status = "complete",
                                                 ![call.parent].childSpecs = call.created]
                          ELSE spec_dirs
          /\ tool_calls' = [tool_calls EXCEPT ![c] =
                              [IdleCall EXCEPT !.result = "created", !.parent = call.parent]]
    /\ UNCHANGED <<daemonVars, batch, auxVars, fileVars, batch_creators, mctsVars>>

\* _create_child_specs of the MCTS orchestrator running on spec_dir, for n nodes
MctsCreateChildSpecs(spec_dir, n) ==
    /\ spec_dir \in DOMAIN spec_dirs
    /\ Len(spec_dirs) + n <= MaxSpecDirs
    /\ ~DepthExceeded(CalculateTaskDepth(spec_dirs, spec_dir) + 1)
    /\ spec_dirs' = CreateAll(spec_dirs, spec_dir, [i \in 1..n |-> "impl"])
    /\ UNCHANGED <<daemonVars, batch, auxVars, fileVars, tool_calls, batch_creators, mctsVars>>

\* the verify specs that depend on spec_id
VerifyCount(dirs, spec_id) ==
    Cardinality({d \in DOMAIN dirs : dirs[d].taskType = "verify"
                                       /\ spec_id \in dirs[d].dependsOn})

\* _auto_queue_verify(spec_id, spec_dir), called by _read_output after an
\* impl-like task exited with code 0
AutoQueueVerify(spec_id) ==
    /\ spec_id \in DOMAIN spec_dirs
    /\ Len(spec_dirs) < MaxSpecDirs
    /\ spec_dirs[spec_id].taskType \in IMPL_TASK_TYPES
    /\ VerifyCount(spec_dirs, spec_id) < MAX_VERIFY_ATTEMPTS
    /\ spec_dirs' = Append(spec_dirs, VerifySpecDir(spec_id))
    /\ UNCHANGED <<daemonVars, batch, auxVars, fileVars, tool_calls, batch_creators, mctsVars>>

ChildNext ==
    \/ \E c \in Sessions, d \in 1..MaxSpecDirs, a \in RequestedTypes :
          ToolCreateChildSpec(c, d, a)
    \/ \E c \in Sessions, d \in 1..MaxSpecDirs, types \in BatchInputs :
          BatchToolGuards(c, d, types)
    \/ \E c \in Sessions : BatchToolCreate(c)
    \/ \E c \in Sessions : BatchToolUpdateParent(c)
    \/ \E d \in 1..MaxSpecDirs : MctsCreateChildSpecs(d, 1)
    \/ \E d \in 1..MaxSpecDirs : AutoQueueVerify(d)

ChildSpec == ChildInit /\ [][ChildNext]_vars

(***************************************************************************)
(* The MCTS tree (mcts/tree.py).  Node ids are the positions in            *)
(* tree.nodes: _generate_node_id is taken to return a fresh id.  Scores    *)
(* are the scorer's totals scaled to integers; Unevaluated is -1.0.        *)
(***************************************************************************)
\* number of nodes of a tree explored
MaxNodes == 4
\* number of backpropagate calls explored
MaxBackprops == 3

Unevaluated == -1
Scores == {0, 1}
NoNode == 0

\* MCTSNode(id, parent_id, action, idea_summary) with the dataclass defaults;
\* error is metadata["error"]
NewNode(parent_id, action, idea_summary) ==
    [parent_id |-> parent_id, spec_id |-> 0, action |-> action,
     idea_summary |-> idea_summary, score |-> Unevaluated,
     visit_count |-> 0, status |-> "pending", children |-> <<>>, error |-> "none"]

\* MCTSTree.create: a root that is completed with score 0.0
CreateTree ==
    [root_id |-> 1,
     nodes |-> <<[NewNode(NoNode, "root", "task") EXCEPT !.status = "completed",
                                                         !.score = 0]>>,
     best_node_id |-> NoNode,
     total_iterations |-> 0]

IsEvaluatedNever(node) == FALSE

IsEvaluated(node) == node.score >= 0
IsTerminal(node) == node.status \in {"completed", "failed", "bug"}
IsExpandable(node) == node.status = "completed" /\ IsEvaluated(node)

\* add_node: store the node and append its id to the children of its parent
AddNode(t, node) ==
    LET id == Len(t.nodes) + 1
        nodes1 == Append(t.nodes, node)
    IN [t EXCEPT !.nodes = IF node.parent_id \in DOMAIN t.nodes
                           THEN [nodes1 EXCEPT ![node.parent_id].children = Append(@, id)]
                           ELSE nodes1]

ExpandNode(t, parent_id, action, idea_summary) ==
    AddNode(t, NewNode(parent_id, action, idea_summary))

RECURSIVE WalkUpResetScore(_, _)
WalkUpResetScore(nodes, current_id) ==
    IF current_id = NoNode \/ current_id \notin DOMAIN nodes THEN nodes
    ELSE WalkUpResetScore([nodes EXCEPT ![current_id].visit_count = @ + 1,
                                        ![current_id].score = 0],
                          nodes[current_id].parent_id)

RECURSIVE WalkUp(_, _)
\* the walk over the ancestors: visit_count += 1 on each
WalkUp(nodes, current_id) ==
    IF current_id = NoNode \/ current_id \notin DOMAIN nodes THEN nodes
    ELSE WalkUp([nodes EXCEPT ![current_id].visit_count = @ + 1],
                nodes[current_id].parent_id)

BeatsOrTies(score, best_score) == score >= best_score

\* score > current_best.score
Beats(score, best_score) == score > best_score

Backpropagate(t, node_id, score) ==
    IF node_id \notin DOMAIN t.nodes THEN t
    ELSE LET nodes1 == [t.nodes EXCEPT ![node_id].score = score,
                                       ![node_id].visit_count = @ + 1]
             nodes2 == WalkUp(nodes1, nodes1[node_id].parent_id)
             best == IF ~IsEvaluated(nodes1[node_id]) THEN t.best_node_id
                     ELSE IF t.best_node_id = NoNode THEN node_id
                     ELSE IF Beats(score, nodes2[t.best_node_id].score) THEN node_id
                     ELSE t.best_node_id
         IN [t EXCEPT !.nodes = nodes2, !.best_node_id = best]

TreeInit ==
    /\ DaemonInit
    /\ batch = NoBatch
    /\ ChildOff
    /\ FilesOff
    /\ AuxOff
    /\ tree = CreateTree
    /\ score_history = <<>>
    /\ mcts = <<>>

\* tree.expand_node(parent_id, action, idea_summary)
ExpandNodeCall(parent_id, action) ==
    /\ Len(tree.nodes) < MaxNodes
    /\ parent_id \in DOMAIN tree.nodes
    /\ tree' = ExpandNode(tree, parent_id, action, "idea")
    /\ UNCHANGED <<daemonVars, batch, auxVars, fileVars, childVars, score_history, mcts>>

\* tree.backpropagate(node_id, score)
BackpropagateCall(node_id, score) ==
    /\ Len(score_history) < MaxBackprops
    /\ node_id \in DOMAIN tree.nodes
    /\ tree' = Backpropagate(tree, node_id, score)
    /\ score_history' = Append(score_history, [node |-> node_id, score |-> score])
    /\ UNCHANGED <<daemonVars, batch, auxVars, fileVars, childVars, mcts>>

TreeNext ==
    \/ \E p \in 1..MaxNodes : ExpandNodeCall(p, "draft")
    \/ \E n \in 1..MaxNodes, s \in Scores : BackpropagateCall(n, s)

TreeSpec == TreeInit /\ [][TreeNext]_vars

(***************************************************************************)
(* run_mcts_search (mcts/orchestrator.py) on the spec directory            *)
(* mcts.spec_dir, with the budget of mcts/budget.py.  A round is three     *)
(* steps, each ending with tree.save: _expand_round (with                  *)
(* _create_child_specs), _wait_for_completion, and the evaluation with the *)
(* state update.  The process can be killed and started again: the new run *)
(* loads the saved tree.  The wall-clock budget, the convergence test and  *)
(* the UCB selection are choices of the model; an idea_summary of "" is a  *)
(* node whose child task description is empty.                             *)
(***************************************************************************)
\* run_mcts_search(max_iterations=..., max_branches=...) of the model (the
\* defaults are 10 and 20)
max_iterations == 2
max_branches == 3
\* number of times the search is killed and resumed
MaxResumes == 1

DEFAULT_N_IDEAS == 4
\* remaining = min(3, budget.remaining_branches())
RoundCap == 3

Min(a, b) == IF a <= b THEN a ELSE b

\* BudgetTracker(spent_iterations=tree.total_iterations,
\*               spent_branches=max(len(tree.nodes) - 1, 0))
NewBudget(t) ==
    [spent_iterations |-> t.total_iterations,
     spent_branches |-> IF Len(t.nodes) - 1 > 0 THEN Len(t.nodes) - 1 ELSE 0]

\* has_budget without the wall-clock test
HasBudget(b) == b.spent_iterations < max_iterations /\ b.spent_branches < max_branches

RemainingBranches(b) ==
    IF max_branches - b.spent_branches > 0 THEN max_branches - b.spent_branches ELSE 0

NIdeasUncapped(b) == DEFAULT_N_IDEAS

\* n_ideas = min(DEFAULT_N_IDEAS, budget.remaining_branches())
NIdeas(b) == Min(DEFAULT_N_IDEAS, RemainingBranches(b))

\* get_failed_nodes: failed or bug, without a child created by "debug"
FailedNodes(t) ==
    {n \in DOMAIN t.nodes :
        /\ t.nodes[n].status \in {"failed", "bug"}
        /\ \A i \in 1..Len(t.nodes[n].children) :
              t.nodes[t.nodes[n].children[i]].action # "debug"}

SetMin(S) == CHOOSE x \in S : \A y \in S : x <= y

RECURSIVE ExpandAll(_, _, _, _)
\* one expand_node per idea
ExpandAll(t, parent_id, action, summaries) ==
    IF summaries = <<>> THEN t
    ELSE ExpandAll(ExpandNode(t, parent_id, action, Head(summaries)),
                   parent_id, action, Tail(summaries))

\* the positions of the nodes whose task description is not empty, in order
RECURSIVE ValidTasks(_, _)
ValidTasks(nodes, ids) ==
    IF ids = <<>> THEN <<>>
    ELSE IF nodes[Head(ids)].idea_summary = "" THEN ValidTasks(nodes, Tail(ids))
    ELSE <<Head(ids)>> \o ValidTasks(nodes, Tail(ids))

\* _create_child_specs(nodes, tree, project_dir, spec_dir, budget)
CreateChildSpecs(t, dirs, b, ids, spec_dir) ==
    IF DepthExceeded(CalculateTaskDepth(dirs, spec_dir) + 1)
    THEN [tree |-> [t EXCEPT !.nodes =
                       [n \in DOMAIN t.nodes |->
                          IF \E i \in 1..Len(ids) : ids[i] = n
                          THEN [t.nodes[n] EXCEPT !.status = "failed", !.error = "depth"]
                          ELSE t.nodes[n]]],
          spec_dirs |-> dirs, budget |-> b]
    ELSE LET valid == ValidTasks(t.nodes, ids)
             m == Len(valid)
             first == Len(dirs)
             \* zip(nodes, created_dirs)
             linked == [n \in DOMAIN t.nodes |->
                          IF \E i \in 1..m : ids[i] = n
                          THEN LET i == CHOOSE i \in 1..m : ids[i] = n
                               IN [t.nodes[n] EXCEPT !.spec_id = first + i,
                                                     !.status = "running"]
                          ELSE t.nodes[n]]
         IN [tree |-> [t EXCEPT !.nodes = linked],
             spec_dirs |-> CreateAll(dirs, spec_dir, [i \in 1..m |-> "impl"]),
             budget |-> [b EXCEPT !.spent_branches = @ + m]]

\* the spec directories the model starts from: a chain that ends in the
\* directory of the MCTS task
ChainOf(k) ==
    [i \in 1..k |-> [parentTask |-> i - 1, taskType |-> IF i = k THEN "mcts" ELSE "design",
                     has_plan |-> TRUE, status |-> "in_progress", childSpecs |-> <<>>,
                     dependsOn |-> {}]]

Summaries(n) == UNION {[1..k -> {"idea", ""}] : k \in 0..n}

\* the MCTS task is at depth MAX_CHILD_DEPTH - 1 (its children are the deepest
\* allowed) or at depth MAX_CHILD_DEPTH (its children are refused)
MctsInit ==
    /\ DaemonInit
    /\ batch = NoBatch
    /\ FilesOff
    /\ AuxOff
    /\ \E k \in MAX_CHILD_DEPTH..(MAX_CHILD_DEPTH + 1) :
          /\ spec_dirs = ChainOf(k)
          /\ mcts = [pc |-> "loop", spec_dir |-> k, budget |-> NewBudget(CreateTree),
                     new_nodes |-> <<>>, resumes |-> 0, rounds |-> 0]
    /\ tool_calls = <<>>
    /\ batch_creators = <<>>
    /\ tree = CreateTree
    /\ score_history = <<>>

NewIds(t, t2) == [i \in 1..(Len(t2.nodes) - Len(t.nodes)) |-> Len(t.nodes) + i]

\* the end of _expand_round: create the specs of the new nodes; an empty
\* round ends the search
FinishExpand(t2) ==
    LET ids == NewIds(tree, t2)
        r == CreateChildSpecs(t2, spec_dirs, mcts.budget, ids, mcts.spec_dir)
    IN IF ids = <<>>
       THEN /\ mcts' = [mcts EXCEPT !.pc = "done"]
            /\ UNCHANGED <<tree, spec_dirs>>
       ELSE /\ tree' = r.tree
            /\ spec_dirs' = r.spec_dirs
            /\ mcts' = [mcts EXCEPT !.pc = "wait", !.budget = r.budget, !.new_nodes = ids]

\* while budget.has_budget(): the first round, generate_ideas
ExpandFirstRound(summaries) ==
    /\ mcts.pc = "loop"
    /\ HasBudget(mcts.budget)
    /\ tree.total_iterations = 0
    /\ Len(summaries) <= NIdeas(mcts.budget)
    /\ FinishExpand(ExpandAll(tree, tree.root_id, "draft", summaries))
    /\ UNCHANGED <<daemonVars, batch, auxVars, fileVars, tool_calls, batch_creators, score_history>>

\* a later round: debug at most one failed node, improve the selected node
ExpandLaterRound(retry_viable, selected, summary) ==
    /\ mcts.pc = "loop"
    /\ HasBudget(mcts.budget)
    /\ tree.total_iterations # 0
    /\ selected \in DOMAIN tree.nodes
    /\ IsExpandable(tree.nodes[selected])
    /\ LET remaining == Min(RoundCap, RemainingBranches(mcts.budget))
           failed == FailedNodes(tree)
           debug == failed # {} /\ remaining > 0 /\ retry_viable
           t1 == IF debug THEN ExpandNode(tree, SetMin(failed), "debug", "fix") ELSE tree
           remaining1 == IF debug THEN remaining - 1 ELSE remaining
           t2 == IF remaining1 > 0 THEN ExpandNode(t1, selected, "improve", summary) ELSE t1
       IN FinishExpand(t2)
    /\ UNCHANGED <<daemonVars, batch, auxVars, fileVars, tool_calls, batch_creators, score_history>>

\* has_budget() is false, or the wall-clock budget is used up
BudgetExhausted ==
    /\ mcts.pc = "loop"
    /\ mcts' = [mcts EXCEPT !.pc = "done"]
    /\ UNCHANGED <<daemonVars, batch, auxVars, fileVars, childVars, tree, score_history>>

\* _wait_for_completion: every running node of the round ends completed or
\* failed (child plan in error, or timeout)
WaitForCompletion(outcome) ==
    /\ mcts.pc = "wait"
    /\ outcome \in [1..Len(mcts.new_nodes) -> {"completed", "failed"}]
    /\ tree' = [tree EXCEPT !.nodes =
                  [n \in DOMAIN tree.nodes |->
                     IF \E i \in 1..Len(mcts.new_nodes) :
                           mcts.new_nodes[i] = n /\ tree.nodes[n].status = "running"
                     THEN LET i == CHOOSE i \in 1..Len(mcts.new_nodes) : mcts.new_nodes[i] = n
                          IN [tree.nodes[n] EXCEPT
                                !.status = outcome[i],
                                !.error = IF outcome[i] = "failed" THEN "child" ELSE @]
                     ELSE tree.nodes[n]]]
    /\ mcts' = [mcts EXCEPT !.pc = "evaluate"]
    /\ UNCHANGED <<daemonVars, batch, auxVars, fileVars, childVars, score_history>>

RECURSIVE ScoreAll(_, _, _)
\* the evaluation loop: backpropagate every terminal node of the round
ScoreAll(r, ids, score) ==
    IF ids = <<>> THEN r
    ELSE LET n == Head(ids)
             s == IF r.tree.nodes[n].spec_id # 0 THEN score ELSE 0
         IN IF IsTerminal(r.tree.nodes[n])
            THEN ScoreAll([tree |-> Backpropagate(r.tree, n, s),
                           history |-> Append(r.history, [node |-> n, score |-> s])],
                          Tail(ids), score)
            ELSE ScoreAll(r, Tail(ids), score)

\* EVALUATE + BACKPROPAGATE, UPDATE STATE, CONVERGENCE CHECK
EvaluateRound(score, stop) ==
    /\ mcts.pc = "evaluate"
    /\ LET r == ScoreAll([tree |-> tree, history |-> score_history], mcts.new_nodes, score)
           b == [mcts.budget EXCEPT !.spent_iterations = @ + 1]
       IN /\ tree' = [r.tree EXCEPT !.total_iterations = b.spent_iterations]
          /\ score_history' = r.history
          /\ mcts' = [mcts EXCEPT !.budget = b, !.new_nodes = <<>>,
                                  !.rounds = @ + 1,
                                  !.pc = IF stop THEN "done" ELSE "loop"]
    /\ UNCHANGED <<daemonVars, batch, auxVars, fileVars, childVars>>

\* the process is killed and run_mcts_search is started again on the saved tree
ResumeSearch ==
    /\ mcts.resumes < MaxResumes
    /\ mcts' = [mcts EXCEPT !.pc = "loop", !.budget = NewBudget(tree),
                            !.new_nodes = <<>>, !.resumes = @ + 1]
    /\ UNCHANGED <<daemonVars, batch, auxVars, fileVars, childVars, tree, score_history>>

MctsNext ==
    \/ \E summaries \in Summaries(DEFAULT_N_IDEAS) : ExpandFirstRound(summaries)
    \/ \E retry_viable \in BOOLEAN, selected \in 1..(2 * max_branches + 2),
          summary \in {"idea", ""} : ExpandLaterRound(retry_viable, selected, summary)
    \/ BudgetExhausted
    \/ \E outcome \in UNION {[1..k -> {"completed", "failed"}] : k \in 1..DEFAULT_N_IDEAS} :
          WaitForCompletion(outcome)
    \/ \E score \in Scores, stop \in BOOLEAN : EvaluateRound(score, stop)
    \/ ResumeSearch

MctsSpec == MctsInit /\ [][MctsNext]_vars

(***************************************************************************)
(* Writes of implementation_plan.json, of the status file and of the       *)
(* daemon state file.  A file is absent, partial (opened for writing and   *)
(* not yet completely written, or written by two writers at once) or a     *)
(* complete snapshot.  A writer that uses a temp file opens it, writes it  *)
(* and renames it over the target; a direct writer opens the target        *)
(* itself.  An open file follows its inode when the path is renamed.       *)
(***************************************************************************)
\* number of mutations of the DaemonState explored
MaxVersion == 2

Absent == [kind |-> "absent", version |-> 0]
PartialFile == [kind |-> "partial", version |-> 0]
Complete(v) == [kind |-> "complete", version |-> v]

\* the writers of plan and status files
PlanWriters == {"scheduler", "output_reader", "batch_tool", "auto_verify",
                "spec_factory", "status_writer"}
\* the threads that call StateManager.save: two through a mutation that
\* holds StateManager._lock, one from stop() without it
LockedSavers == {"saver_a", "saver_b"}
StateSavers == LockedSavers \cup {"saver_stop"}

Writers == PlanWriters \cup StateSavers

\* the file a writer replaces
TargetOf(w) ==
    CASE w \in {"scheduler", "output_reader", "batch_tool"} -> "plan"
      [] w = "auto_verify" -> "verify_plan"
      [] w = "spec_factory" -> "child_plan"
      [] w = "status_writer" -> "status"
      [] OTHER -> "state"

\* open(plan_path, "w") and write_text on the target itself
IsDirect(w) == w \in {"batch_tool", "auto_verify", "spec_factory"}

\* the except branch removes the temp file
UnlinksOnFailure(w) == w \in StateSavers \cup {"status_writer"}

SharedStateTemp(w) == "state.tmp"

\* state_file.with_suffix(f".tmp.{os.getpid()}.{threading.get_ident()}")
StateTempPath(w) ==
    CASE w = "saver_a" -> "state.tmp.a"
      [] w = "saver_b" -> "state.tmp.b"
      [] OTHER -> "state.tmp.stop"

\* the path a writer opens for writing
OpenPath(w) ==
    IF IsDirect(w) THEN TargetOf(w)
    ELSE IF w \in StateSavers THEN StateTempPath(w)
    ELSE IF w = "status_writer" THEN "status.tmp"
    \* plan_path.with_suffix(".tmp")
    ELSE "plan.tmp"

Paths == {"plan", "plan.tmp", "verify_plan", "child_plan", "status", "status.tmp",
          "state", "state.tmp", "state.tmp.a", "state.tmp.b", "state.tmp.stop"}

IdleWriter == [pc |-> "idle", path |-> "none", clean |-> TRUE, data |-> 0]

FilesInit ==
    /\ DaemonInit
    /\ batch = NoBatch
    /\ ChildOff
    /\ MctsOff
    /\ AuxOff
    /\ files = [p \in Paths |-> IF p = "plan" THEN Complete(0) ELSE Absent]
    /\ writers = [w \in Writers |-> IdleWriter]
    /\ mem_version = 0

\* the writers that have the file at path p open for writing
WritingAt(p) == {w \in Writers : writers[w].pc = "writing" /\ writers[w].path = p}

\* open(path, "w"): the file is truncated; a locked saver has taken the lock
\* and changed the state first
BeginWrite(w) ==
    /\ writers[w].pc = "idle"
    /\ w \in LockedSavers =>
          /\ \A o \in LockedSavers : writers[o].pc = "idle"
          /\ mem_version < MaxVersion
    /\ mem_version' = IF w \in LockedSavers THEN mem_version + 1 ELSE mem_version
    /\ LET p == OpenPath(w)
           others == WritingAt(p)
       IN /\ files' = [files EXCEPT ![p] = PartialFile]
          /\ writers' = [o \in Writers |->
                           IF o = w THEN [pc |-> "writing", path |-> p,
                                          clean |-> others = {}, data |-> mem_version']
                           ELSE IF o \in others THEN [writers[o] EXCEPT !.clean = FALSE]
                           ELSE writers[o]]
    /\ UNCHANGED <<daemonVars, batch, auxVars, childVars, mctsVars>>

\* json.dump returned and the file was closed
FinishWrite(w) ==
    /\ writers[w].pc = "writing"
    /\ LET p == writers[w].path
       IN /\ files' = [files EXCEPT ![p] = IF writers[w].clean /\ WritingAt(p) = {w}
                                           THEN Complete(writers[w].data)
                                           ELSE PartialFile]
          /\ writers' = [writers EXCEPT ![w] =
                           IF IsDirect(w) THEN IdleWriter ELSE [@ EXCEPT !.pc = "written"]]
    /\ UNCHANGED <<daemonVars, batch, auxVars, childVars, mctsVars, mem_version>>

\* the write raised (or the writing process was killed): what was written stays,
\* unless the except branch unlinks the temp file
FailWrite(w) ==
    /\ writers[w].pc = "writing"
    /\ files' = IF UnlinksOnFailure(w) /\ files[OpenPath(w)].kind # "absent"
                THEN [files EXCEPT ![OpenPath(w)] = Absent]
                ELSE files
    /\ writers' = [writers EXCEPT ![w] = IdleWriter]
    /\ UNCHANGED <<daemonVars, batch, auxVars, childVars, mctsVars, mem_version>>

\* temp_path.replace(target); a missing temp file raises and nothing changes
RenameTemp(w) ==
    /\ writers[w].pc = "written"
    /\ LET p == OpenPath(w)
           target == TargetOf(w)
       IN IF files[p].kind = "absent"
          THEN /\ writers' = [writers EXCEPT ![w] = IdleWriter]
               /\ UNCHANGED files
          ELSE /\ files' = [files EXCEPT ![target] = files[p], ![p] = Absent]
               /\ writers' = [o \in Writers |->
                                IF o = w THEN IdleWriter
                                ELSE IF writers[o].pc = "writing" /\ writers[o].path = p
                                THEN [writers[o] EXCEPT !.path = target]
                                ELSE writers[o]]
    /\ UNCHANGED <<daemonVars, batch, auxVars, childVars, mctsVars, mem_version>>

PlanFileNext ==
    \/ \E w \in PlanWriters : BeginWrite(w)
    \/ \E w \in PlanWriters : FinishWrite(w)
    \/ \E w \in PlanWriters : FailWrite(w)
    \/ \E w \in PlanWriters : RenameTemp(w)

StateFileNext ==
    \/ \E w \in StateSavers : BeginWrite(w)
    \/ \E w \in StateSavers : FinishWrite(w)
    \/ \E w \in StateSavers : FailWrite(w)
    \/ \E w \in StateSavers : RenameTemp(w)

PlanFileSpec == FilesInit /\ [][PlanFileNext]_vars

StateFileSpec == FilesInit /\ [][StateFileNext]_vars

(***************************************************************************)
(* SpecsWatcher.stop (task_daemon/watcher.py), called by several threads   *)
(* after one start().  The method holds no lock: a thread can be           *)
(* interrupted between any two of its statements.                          *)
(***************************************************************************)
\* number of stop() calls each thread makes
MaxStopCalls == 2

StopCallers == {"t1", "t2", "t3"}

\* after start(): the observer runs and self._observer references it
WatcherInit ==
    /\ DaemonInit
    /\ batch = NoBatch
    /\ ChildOff
    /\ MctsOff
    /\ FilesOff
    /\ handler = <<>>
    /\ verify = <<>>
    /\ PureOff
    /\ watcher = [attr |-> "observer", stops |-> 0, joins |-> 0,
                  calls |-> [c \in StopCallers |-> [pc |-> "idle", observer |-> "None", n |-> 0]]]

\* observer = self._observer; if observer is None: return
StopRead(c) ==
    /\ watcher.calls[c].pc = "idle"
    /\ watcher.calls[c].n < MaxStopCalls
    /\ watcher' = [watcher EXCEPT
                     !.calls[c] = [pc |-> IF watcher.attr = "None" THEN "idle" ELSE "clear",
                                   observer |-> watcher.attr, n |-> @.n + 1]]
    /\ UNCHANGED <<daemonVars, batch, childVars, mctsVars, fileVars, handler, verify, pureVars>>

\* self._observer = None; self._handler = None
StopClear(c) ==
    /\ watcher.calls[c].pc = "clear"
    /\ watcher' = [watcher EXCEPT !.attr = "None", !.calls[c].pc = "stop"]
    /\ UNCHANGED <<daemonVars, batch, childVars, mctsVars, fileVars, handler, verify, pureVars>>

\* observer.stop()
StopObserver(c) ==
    /\ watcher.calls[c].pc = "stop"
    /\ watcher' = [watcher EXCEPT !.stops = @ + 1, !.calls[c].pc = "join"]
    /\ UNCHANGED <<daemonVars, batch, childVars, mctsVars, fileVars, handler, verify, pureVars>>

\* observer.join(timeout=timeout)
JoinObserver(c) ==
    /\ watcher.calls[c].pc = "join"
    /\ watcher' = [watcher EXCEPT !.joins = @ + 1,
                                  !.calls[c] = [@ EXCEPT !.pc = "idle", !.observer = "None"]]
    /\ UNCHANGED <<daemonVars, batch, childVars, mctsVars, fileVars, handler, verify, pureVars>>

WatcherNext ==
    \/ \E c \in StopCallers : StopRead(c)
    \/ \E c \in StopCallers : StopClear(c)
    \/ \E c \in StopCallers : StopObserver(c)
    \/ \E c \in StopCallers : JoinObserver(c)

WatcherSpec == WatcherInit /\ [][WatcherNext]_vars

(***************************************************************************)
(* SpecsEventHandler._should_process (task_daemon/watcher.py).  The        *)
(* observer delivers the events of a watch from one thread, so the events  *)
(* are handled one after another.  time.time() is taken to be              *)
(* non-decreasing and is counted in seconds.  The size above which the map *)
(* is pruned (500 in the source) and the age of the pruned entries (60 s)  *)
(* are scaled to the spec ids and the times of the model, keeping          *)
(* debounce_seconds below the age.                                         *)
(***************************************************************************)
\* the last value of time.time() explored
MaxTime == 8
\* len(self._last_events) > 500, scaled
PruneSize == 2
\* cutoff = now - 60.0, scaled
PruneAge == 3

\* DaemonConfig.DEBOUNCE_SECONDS
debounce_seconds == 2

WatchedSpecs == {"a", "b", "c", "d"}

\* a cutoff that removes every entry
PruneCutoffNow(now) == now

PruneCutoff(now) == now - PruneAge

\* _should_process(spec_id) at time now: whether the event is processed, and
\* _last_events afterwards
ShouldProcess(last_events, spec_id, now) ==
    LET last_time == IF spec_id \in DOMAIN last_events THEN last_events[spec_id] ELSE 0
        set == DictPut(last_events, spec_id, now)
        kept == {k \in DOMAIN set : set[k] > PruneCutoff(now)}
    IN IF now - last_time < debounce_seconds
       THEN [process |-> FALSE, last_events |-> last_events]
       ELSE [process |-> TRUE,
             last_events |-> IF Cardinality(DOMAIN set) > PruneSize
                             THEN [k \in kept |-> set[k]]
                             ELSE set]

\* the handler of a watcher that was just started
HandlerInit ==
    /\ DaemonInit
    /\ batch = NoBatch
    /\ ChildOff
    /\ MctsOff
    /\ FilesOff
    /\ watcher = <<>>
    /\ verify = <<>>
    /\ PureOff
    /\ handler = [now |-> debounce_seconds, last_events |-> EmptyDict, calls |-> EmptyDict,
                  last |-> [spec_id |-> "none", process |-> FALSE]]

\* _handle_event for a change of the plan of spec_id, dt seconds after the
\* event before: the callback is called when _should_process returns True
HandleEvent(spec_id, dt) ==
    /\ handler.now + dt <= MaxTime
    /\ LET now == handler.now + dt
           r == ShouldProcess(handler.last_events, spec_id, now)
       IN handler' = [now |-> now,
                      last_events |-> r.last_events,
                      calls |-> IF r.process THEN DictPut(handler.calls, spec_id, now)
                                ELSE handler.calls,
                      last |-> [spec_id |-> spec_id, process |-> r.process]]
    /\ UNCHANGED <<daemonVars, batch, childVars, mctsVars, fileVars, watcher, verify, pureVars>>

HandlerNext == \E spec_id \in WatchedSpecs, dt \in 0..PruneAge : HandleEvent(spec_id, dt)

HandlerSpec == HandlerInit /\ [][HandlerNext]_vars

(***************************************************************************)
(* _auto_queue_verify (task_daemon/__init__.py), called by the output      *)
(* reader threads outside the daemon lock: after an impl-like task exited  *)
(* with code 0, and for the parent after an error_check task exited with   *)
(* code 0.  The count of the verify specs, the test for the directory, the *)
(* mkdir and the write of the plan are separate steps of a call.           *)
(***************************************************************************)
VerifyThreads == {"r1", "r2"}

\* the specs a verify is queued for; "verify-x-2" is the second verify of x
\* and the first verify of x-2
VerifyParents == {<<"x">>, <<"x", "-", "2">>}

VerifyPrefix == <<"v", "e", "r", "i", "f", "y", "-">>

\* f"verify-{spec_id}" if attempt == 1 else f"verify-{spec_id}-{attempt}"
VerifySpecId(spec_id, attempt) ==
    IF attempt = 1 THEN VerifyPrefix \o spec_id
    ELSE VerifyPrefix \o spec_id \o <<"-">> \o NatToStr(attempt)

\* the verify directories with a readable plan whose dependsOn holds spec_id
VerifyPlansOf(dirs, spec_id) ==
    {id \in DOMAIN dirs : dirs[id].plan /\ dirs[id].dependsOn = spec_id}

\* a guard that never stops the chain
MaxVerifyReachedNever(verify_count) == FALSE

\* if verify_count >= MAX_VERIFY_ATTEMPTS: return
MaxVerifyReached(verify_count) == verify_count >= MAX_VERIFY_ATTEMPTS

IdleVerifyCall == [pc |-> "idle", spec_id |-> <<>>, verify_count |-> 0, id |-> <<>>,
                   result |-> "none"]

VerifyInit ==
    /\ DaemonInit
    /\ batch = NoBatch
    /\ ChildOff
    /\ MctsOff
    /\ FilesOff
    /\ watcher = <<>>
    /\ handler = <<>>
    /\ PureOff
    /\ verify = [dirs |-> EmptyDict, calls |-> [r \in VerifyThreads |-> IdleVerifyCall]]

\* the loop over specs_dir.iterdir(): plans that cannot be read are skipped
CountVerify(r, spec_id) ==
    /\ verify.calls[r].pc = "idle"
    /\ verify' = [verify EXCEPT
                    !.calls[r] = [pc |-> "counted", spec_id |-> spec_id,
                                  verify_count |-> Cardinality(VerifyPlansOf(verify.dirs, spec_id)),
                                  id |-> <<>>, result |-> "none"]]
    /\ UNCHANGED <<daemonVars, batch, childVars, mctsVars, fileVars, watcher, handler, pureVars>>

\* the guard on the count, the spec ID of the attempt, verify_dir.exists()
GuardVerify(r) ==
    /\ verify.calls[r].pc = "counted"
    /\ LET call == verify.calls[r]
           id == VerifySpecId(call.spec_id, call.verify_count + 1)
       IN verify' = [verify EXCEPT
                       !.calls[r] =
                          IF MaxVerifyReached(call.verify_count)
                          THEN [IdleVerifyCall EXCEPT !.result = "max", !.spec_id = call.spec_id]
                          ELSE IF id \in DOMAIN verify.dirs
                          THEN [IdleVerifyCall EXCEPT !.result = "exists",
                                                      !.spec_id = call.spec_id]
                          ELSE [call EXCEPT !.pc = "mkdir", !.id = id]]
    /\ UNCHANGED <<daemonVars, batch, childVars, mctsVars, fileVars, watcher, handler, pureVars>>

\* verify_dir.mkdir(parents=True, exist_ok=True)
MkdirVerify(r) ==
    /\ verify.calls[r].pc = "mkdir"
    /\ LET id == verify.calls[r].id
       IN verify' = [verify EXCEPT
                       !.dirs = IF id \in DOMAIN verify.dirs THEN @
                                ELSE DictPut(@, id, [plan |-> FALSE, dependsOn |-> <<>>]),
                       !.calls[r].pc = "write"]
    /\ UNCHANGED <<daemonVars, batch, childVars, mctsVars, fileVars, watcher, handler, pureVars>>

\* spec.md and implementation_plan.json of the verify spec are written
WriteVerifyPlan(r) ==
    /\ verify.calls[r].pc = "write"
    /\ LET call == verify.calls[r]
       IN verify' = [verify EXCEPT
                       !.dirs = DictPut(@, call.id, [plan |-> TRUE, dependsOn |-> call.spec_id]),
                       !.calls[r] = [IdleVerifyCall EXCEPT !.result = "created",
                                                           !.spec_id = call.spec_id]]
    /\ UNCHANGED <<daemonVars, batch, childVars, mctsVars, fileVars, watcher, handler, pureVars>>

VerifyNext ==
    \/ \E r \in VerifyThreads, spec_id \in VerifyParents : CountVerify(r, spec_id)
    \/ \E r \in VerifyThreads : GuardVerify(r)
    \/ \E r \in VerifyThreads : MkdirVerify(r)
    \/ \E r \in VerifyThreads : WriteVerifyPlan(r)

VerifySpec == VerifyInit /\ [][VerifyNext]_vars

(***************************************************************************)
(* state.py: _is_dep_met on its own, for dependency strings and completion *)
(* sets drawn from the sets below                                          *)
(***************************************************************************)
\* dependency references: bare numbers with and without padding, full and
\* truncated IDs in both cases, short and long slug prefixes
DepInputs == {<<"2">>, <<"0", "2">>, <<"0", "0", "2">>, <<"0", "0", "0", "2">>,
              <<"0", "0", "2", "-", "b">>, <<"0", "0", "2", "-", "B">>,
              <<"2", "-", "b">>, <<"0", "0", "2", "-">>, <<"0", "0", "3">>,
              <<"a", "b">>, <<"a", "b", "c">>, <<"A", "B", "C">>, <<"b">>}

\* the IDs _completed_set may hold
CompletedIds == {<<"0", "0", "2", "-", "b", "c">>, <<"0", "0", "2", "-", "b">>,
                 <<"a", "b", "c", "-", "a">>, <<"0", "0", "0", "2", "-", "a">>,
                 <<"2", "-", "b">>}

DepInit ==
    /\ DaemonInit
    /\ LoopOff
    /\ batch = NoBatch
    /\ ChildOff
    /\ MctsOff
    /\ FilesOff
    /\ watcher = <<>>
    /\ handler = <<>>
    /\ verify = <<>>
    /\ factory = <<>>
    /\ fn_call = <<>>
    /\ \E dep \in DepInputs, completed \in SUBSET CompletedIds :
          dep_check = [pc |-> "call", dep |-> dep, completed |-> completed,
                       met |-> FALSE]

\* one call of _is_dep_met(dep) on a manager whose _completed_set is completed
IsDepMetCall ==
    /\ dep_check.pc = "call"
    /\ dep_check' = [dep_check EXCEPT
                       !.pc = "return",
                       !.met = IsDepMet(dep_check.dep, dep_check.completed)]
    /\ UNCHANGED <<daemonVars, batch, childVars, mctsVars, fileVars, watcher, handler,
                   verify, factory, fn_call, loopVars>>

DepNext == IsDepMetCall

DepSpec == DepInit /\ [][DepNext]_vars

(***************************************************************************)
(* spec_factory.py: create_child_spec called by the processes that hold a  *)
(* SpecFactory on the same specs directory (the daemon, the agents' tools, *)
(* the MCTS orchestrator)                                                  *)
(***************************************************************************)
\* number of create_child_spec calls explored
MaxCreates == 3

FactoryCallers == {"p1", "p2"}

FactoryTasks == {TaskA, TaskAUpper, TaskB, TaskBang}

\* the spec directories that exist when the calls begin
FactoryDirs == {{},
                {<<"0", "0", "1", "-", "a">>},
                {<<"0", "0", "1", "-", "a">>, <<"0", "0", "3", "-", "b">>},
                {<<"0", "1", "-", "a">>, <<"a", "-", "0", "0", "7">>},
                {<<"9", "9", "8", "-", "a">>},
                {<<"9", "9", "9", "-", "b">>}}

IdleCreate == [pc |-> "idle", spec_id |-> <<>>, existed |-> FALSE, seen |-> {}]

FactoryInit ==
    /\ DaemonInit
    /\ LoopOff
    /\ batch = NoBatch
    /\ ChildOff
    /\ MctsOff
    /\ FilesOff
    /\ watcher = <<>>
    /\ handler = <<>>
    /\ verify = <<>>
    /\ dep_check = <<>>
    /\ fn_call = <<>>
    /\ \E dirs \in FactoryDirs :
          factory = [dirs |-> dirs, creates |-> 0,
                     calls |-> [p \in FactoryCallers |-> IdleCreate]]

\* spec_id = self._generate_spec_id(task_description), on the directories
\* iterdir() lists at this moment
GenerateId(p, task) ==
    /\ factory.calls[p].pc \in {"idle", "made"}
    /\ factory.creates < MaxCreates
    /\ factory' = [factory EXCEPT
                     !.creates = @ + 1,
                     !.calls[p] = [pc |-> "generated",
                                   spec_id |-> GenerateSpecId(task, factory.dirs),
                                   existed |-> FALSE,
                                   seen |-> factory.dirs]]
    /\ UNCHANGED <<daemonVars, batch, childVars, mctsVars, fileVars, watcher, handler,
                   verify, dep_check, fn_call, loopVars>>

\* spec_dir.mkdir(parents=True, exist_ok=True): a directory that is already
\* there is taken over without an error
MakeSpecDir(p) ==
    /\ factory.calls[p].pc = "generated"
    /\ factory' = [factory EXCEPT
                     !.dirs = @ \cup {factory.calls[p].spec_id},
                     !.calls[p].pc = "made",
                     !.calls[p].existed = factory.calls[p].spec_id \in factory.dirs]
    /\ UNCHANGED <<daemonVars, batch, childVars, mctsVars, fileVars, watcher, handler,
                   verify, dep_check, fn_call, loopVars>>

FactoryNext ==
    \/ \E p \in FactoryCallers, task \in FactoryTasks : GenerateId(p, task)
    \/ \E p \in FactoryCallers : MakeSpecDir(p)

FactorySpec == FactoryInit /\ [][FactoryNext]_vars

(***************************************************************************)
(* start() on its own: the startup scan over spec directories whose plans  *)
(* hold any of the statuses below, with the completion set load() restored *)
(***************************************************************************)
ScanStatuses == {"queue", "backlog", "in_progress", "done", "merged", "complete", "error"}

ScanInit ==
    /\ started = FALSE
    /\ stop_state = "no"
    /\ \E st \in [Specs -> ScanStatuses] :
          plan = [s \in Specs |->
                    [status |-> st[s], lastError |-> "", priority |-> 2,
                     dependsOn |-> IF s = SpecB THEN <<SpecA>> ELSE <<>>]]
    /\ task_queue = <<>>
    /\ running_tasks = EmptyDict
    /\ completed_set \in {{}, {SpecC}}
    /\ recovery_counts = [s \in Specs |-> 0]
    /\ proc = [s \in Specs |-> "none"]
    /\ reader = [s \in Specs |-> "none"]
    /\ sched = SchedIdle
    /\ checker = CheckerAt("idle", {})
    /\ clock = 0
    /\ kills = [s \in Specs |-> 0]
    /\ ext_writes = 0
    /\ last_errors = [s \in Specs |-> ""]
    /\ batch = NoBatch
    /\ ToolsOff

ScanNext == StartDaemon

ScanSpec == ScanInit /\ [][ScanNext]_vars

(***************************************************************************)
(* _get_next_ready_task on its own: one readiness scan of a sorted queue,  *)
(* for the plan statuses and completion sets below                         *)
(***************************************************************************)
\* statuses the plan of a queued spec may hold when the scheduler scans
ReadyStatuses == {"queue", "in_progress", "human_review", "done"}

\* the orders in which the specs of the model can stand in the queue
QueueOrders ==
    {<<>>} \cup {<<a>> : a \in Specs}
           \cup {o \in [1..2 -> Specs] : o[1] # o[2]}
           \cup {o \in [1..3 -> Specs] : Cardinality({o[i] : i \in 1..3}) = 3}

\* the queue entries of the specs in order o: equal priorities, so the order
\* of queued_at is the sorted order
QueueOf(o) ==
    [i \in 1..Len(o) |->
        [spec_id |-> o[i], priority |-> 2,
         depends_on |-> IF o[i] = SpecB THEN <<SpecA>> ELSE <<>>,
         queued_at |-> i]]

ReadyInit ==
    /\ DaemonInit
    /\ LoopOff
    /\ batch = NoBatch
    /\ ChildOff
    /\ MctsOff
    /\ FilesOff
    /\ watcher = <<>>
    /\ handler = <<>>
    /\ verify = <<>>
    /\ dep_check = <<>>
    /\ factory = <<>>
    /\ \E o \in QueueOrders, st \in [Specs -> ReadyStatuses],
          comp \in {{}, {SpecA}} :
          fn_call = [pc |-> "call", task_queue |-> QueueOf(o),
                     plans |-> [s \in Specs |-> [status |-> st[s]]],
                     completed |-> comp, queue_before |-> QueueOf(o),
                     task |-> NoTask]

\* one call of _get_next_ready_task under the daemon lock
GetNextReadyTaskCall ==
    /\ fn_call.pc = "call"
    /\ LET r == GetNextReadyTask(fn_call.task_queue, fn_call.plans, fn_call.completed)
       IN fn_call' = [fn_call EXCEPT !.pc = "return", !.task_queue = r.queue,
                                     !.completed = r.completed, !.task = r.task]
    /\ UNCHANGED <<daemonVars, batch, childVars, mctsVars, fileVars, watcher, handler,
                   verify, dep_check, factory, loopVars>>

ReadyNext == GetNextReadyTaskCall

ReadySpec == ReadyInit /\ [][ReadyNext]_vars

(***************************************************************************)
(* qa/validator_orchestrator.py: run_validators.  The validate calls are   *)
(* recorded in the order in which they begin; the runtime validators are   *)
(* awaited together and may begin in any order.                            *)
(***************************************************************************)
ALL_VALIDATORS == <<"build", "browser", "api", "database">>

Capabilities == SUBSET {"is_web_frontend", "is_electron", "has_api", "has_database"}

\* BaseValidator.is_applicable and the override of BrowserValidator
IsApplicable(v, capabilities) ==
    CASE v = "build" -> TRUE
      [] v = "browser" -> "is_web_frontend" \in capabilities /\ "is_electron" \notin capabilities
      [] v = "api" -> "has_api" \in capabilities
      [] v = "database" -> "has_database" \in capabilities

\* select_validators
SelectValidators(capabilities) ==
    LET Applicable(v) == IsApplicable(v, capabilities)
    IN SelectSeq(ALL_VALIDATORS, Applicable)

IsBuild(v) == v = "build"
IsRuntime(v) == v # "build"

\* a build result that lets the runtime validators run whatever it says
BuildFailedNever(result) == FALSE

\* if not result.passed
BuildFailed(result) == ~result.passed

\* the result appended for a runtime validator after a failed build
SkippedResult(v) == [validator_id |-> v, passed |-> TRUE, kind |-> "skipped"]

\* the result appended for a runtime validator: its own, or the one made for
\* an exception gather returned
RuntimeResult(v, outcome) ==
    [validator_id |-> v,
     passed |-> outcome # "fail",
     kind |-> IF outcome = "raise" THEN "error" ELSE "result"]

ValidatorInit ==
    /\ DaemonInit
    /\ LoopOff
    /\ batch = NoBatch
    /\ ChildOff
    /\ MctsOff
    /\ FilesOff
    /\ watcher = <<>>
    /\ handler = <<>>
    /\ verify = <<>>
    /\ dep_check = <<>>
    /\ factory = <<>>
    /\ \E capabilities \in Capabilities :
          fn_call = [pc |-> "build", validators |-> SelectValidators(capabilities),
                     invoked |-> <<>>, outcomes |-> <<>>, results |-> <<>>]

\* step 1: the build validators in order; a failed build appends a skipped
\* result for every runtime validator and returns
RunBuildValidator(passed) ==
    /\ fn_call.pc = "build"
    /\ LET build_validators == SelectSeq(fn_call.validators, IsBuild)
           runtime_validators == SelectSeq(fn_call.validators, IsRuntime)
           result == [validator_id |-> "build", passed |-> passed, kind |-> "result"]
       IN IF build_validators = <<>>
          THEN fn_call' = [fn_call EXCEPT !.pc = "runtime"]
          ELSE IF BuildFailed(result)
          THEN fn_call' = [fn_call EXCEPT
                             !.pc = "return",
                             !.invoked = Append(@, "build"),
                             !.results = <<result>> \o
                                 [i \in 1..Len(runtime_validators) |->
                                     SkippedResult(runtime_validators[i])]]
          ELSE fn_call' = [fn_call EXCEPT !.pc = "runtime",
                                          !.invoked = Append(@, "build"),
                                          !.results = <<result>>]
    /\ UNCHANGED <<daemonVars, batch, childVars, mctsVars, fileVars, watcher, handler,
                   verify, dep_check, factory, loopVars>>

\* step 2: v.validate(ctx) of one runtime validator under asyncio.gather
RuntimeValidate(v, outcome) ==
    /\ fn_call.pc = "runtime"
    /\ \E i \in 1..Len(fn_call.validators) : fn_call.validators[i] = v
    /\ IsRuntime(v)
    /\ \A i \in 1..Len(fn_call.invoked) : fn_call.invoked[i] # v
    /\ fn_call' = [fn_call EXCEPT !.invoked = Append(@, v),
                                  !.outcomes = Append(@, [validator_id |-> v,
                                                          outcome |-> outcome])]
    /\ UNCHANGED <<daemonVars, batch, childVars, mctsVars, fileVars, watcher, handler,
                   verify, dep_check, factory, loopVars>>

\* gather has returned: one result per runtime validator, in list order
GatherResults ==
    /\ fn_call.pc = "runtime"
    /\ LET runtime_validators == SelectSeq(fn_call.validators, IsRuntime)
           OutcomeOf(v) == (CHOOSE o \in {fn_call.outcomes[i] : i \in 1..Len(fn_call.outcomes)} :
                               o.validator_id = v).outcome
       IN /\ \A i \in 1..Len(runtime_validators) :
                \E j \in 1..Len(fn_call.invoked) : fn_call.invoked[j] = runtime_validators[i]
          /\ fn_call' = [fn_call EXCEPT
                           !.pc = "return",
                           !.results = @ \o [i \in 1..Len(runtime_validators) |->
                                               RuntimeResult(runtime_validators[i],
                                                             OutcomeOf(runtime_validators[i]))]]
    /\ UNCHANGED <<daemonVars, batch, childVars, mctsVars, fileVars, watcher, handler,
                   verify, dep_check, factory, loopVars>>

ValidatorNext ==
    \/ \E passed \in BOOLEAN : RunBuildValidator(passed)
    \/ \E v \in {"browser", "api", "database"}, outcome \in {"pass", "fail", "raise"} :
          RuntimeValidate(v, outcome)
    \/ GatherResults

ValidatorSpec == ValidatorInit /\ [][ValidatorNext]_vars

(***************************************************************************)
(* runners/daemon_runner.py: write_status_loop, with the daemon threads    *)
(* that change the state under the lock and then call                      *)
(* _notify_status_change.  The state of the daemon is its version, the     *)
(* number of changes made; get_status reads it under the lock.  The wait   *)
(* on _status_dirty ends when the event is set or by its timeout.          *)
(***************************************************************************)
\* number of state changes explored
MaxMutations == 3

\* a loop that clears the event before it waits
WriterOrderClearFirst(pc) ==
    CASE pc = "snapshot" -> "write"
      [] pc = "write" -> "clear"
      [] pc = "clear" -> "wait"
      [] pc = "wait" -> "snapshot"

\* the order of the loop body: get_status, the write of the file, wait, clear
WriterOrder(pc) ==
    CASE pc = "snapshot" -> "write"
      [] pc = "write" -> "wait"
      [] pc = "wait" -> "clear"
      [] pc = "clear" -> "snapshot"

StatusInit ==
    /\ DaemonInit
    /\ batch = NoBatch
    /\ ChildOff
    /\ MctsOff
    /\ FilesOff
    /\ watcher = <<>>
    /\ handler = <<>>
    /\ verify = <<>>
    /\ dep_check = <<>>
    /\ factory = <<>>
    /\ fn_call = <<>>
    /\ all_complete = <<>>
    /\ status_writer = [pc |-> "snapshot", version |-> 0, unsignalled |-> {},
                        signalled |-> 0, dirty |-> FALSE, snap |-> 0, written |-> 0,
                        writes |-> 0]

StatusUnchanged ==
    UNCHANGED <<daemonVars, batch, childVars, mctsVars, fileVars, watcher, handler,
                verify, dep_check, factory, fn_call, all_complete>>

\* a daemon thread changes the state under the lock
MutateState ==
    /\ status_writer.version < MaxMutations
    /\ status_writer' = [status_writer EXCEPT
                           !.version = @ + 1,
                           !.unsignalled = @ \cup {status_writer.version + 1}]
    /\ StatusUnchanged

\* the same thread, after it released the lock: _notify_status_change
NotifyStatusChange(v) ==
    /\ v \in status_writer.unsignalled
    /\ status_writer' = [status_writer EXCEPT
                           !.unsignalled = @ \ {v},
                           !.signalled = IF v > @ THEN v ELSE @,
                           !.dirty = TRUE]
    /\ StatusUnchanged

\* status = daemon.get_status()
GetStatus ==
    /\ status_writer.pc = "snapshot"
    /\ status_writer' = [status_writer EXCEPT !.pc = WriterOrder(@),
                                              !.snap = status_writer.version]
    /\ StatusUnchanged

\* the dump to the temp file and its rename; an exception is logged and the
\* loop goes on
WriteStatus(ok) ==
    /\ status_writer.pc = "write"
    /\ status_writer' = [status_writer EXCEPT
                           !.pc = WriterOrder(@),
                           !.written = IF ok THEN status_writer.snap ELSE @,
                           !.writes = IF ok /\ @ < MaxMutations THEN @ + 1 ELSE @]
    /\ StatusUnchanged

\* daemon._status_dirty.wait(timeout=30) returns
WaitDirty(timeout) ==
    /\ status_writer.pc = "wait"
    /\ status_writer.dirty \/ timeout
    /\ status_writer' = [status_writer EXCEPT !.pc = WriterOrder(@)]
    /\ StatusUnchanged

\* daemon._status_dirty.clear()
ClearDirty ==
    /\ status_writer.pc = "clear"
    /\ status_writer' = [status_writer EXCEPT !.pc = WriterOrder(@), !.dirty = FALSE]
    /\ StatusUnchanged

StatusNext ==
    \/ MutateState
    \/ \E v \in 1..MaxMutations : NotifyStatusChange(v)
    \/ GetStatus
    \/ \E ok \in BOOLEAN : WriteStatus(ok)
    \/ \E timeout \in BOOLEAN : WaitDirty(timeout)
    \/ ClearDirty

\* the writer thread and the notifying threads keep running, and the write
\* of the status file does not fail for ever
StatusSpec ==
    /\ StatusInit
    /\ [][StatusNext]_vars
    /\ WF_vars(\E v \in 1..MaxMutations : NotifyStatusChange(v))
    /\ WF_vars(GetStatus)
    /\ SF_vars(WriteStatus(TRUE))
    /\ WF_vars(\E timeout \in BOOLEAN : WaitDirty(timeout))
    /\ WF_vars(ClearDirty)

(***************************************************************************)
(* mcts/lesson_extractor.py: _save_lessons on mcts_lessons.json.  The ids  *)
(* of the lessons are the ones the extraction returned; a lesson without   *)
(* an id has the id "".                                                    *)
(***************************************************************************)
\* number of saves explored
MaxSaves == 2

LessonSet == [id : {"", "lesson_a"}, title : {"t1", "t2"}]

\* the lists one extraction may return
LessonBatches == {<<>>} \cup {<<l>> : l \in LessonSet} \cup [1..2 -> LessonSet]

\* existing_ids is computed once, before the loop over the new lessons
RECURSIVE MergeLessons(_, _, _)
MergeLessons(existing, existing_ids, lessons) ==
    IF lessons = <<>> THEN existing
    ELSE IF Head(lessons).id \notin existing_ids
         THEN MergeLessons(Append(existing, Head(lessons)), existing_ids, Tail(lessons))
         ELSE MergeLessons(existing, existing_ids, Tail(lessons))

\* the content of the file after _save_lessons(lessons, spec_dir); a file
\* that can not be read or parsed counts as empty
SaveLessonsResult(file, lessons, readable) ==
    LET existing == IF readable THEN file ELSE <<>>
        existing_ids == {existing[i].id : i \in 1..Len(existing)}
    IN MergeLessons(existing, existing_ids, lessons)

LessonInit ==
    /\ DaemonInit
    /\ LoopOff
    /\ batch = NoBatch
    /\ ChildOff
    /\ MctsOff
    /\ FilesOff
    /\ watcher = <<>>
    /\ handler = <<>>
    /\ verify = <<>>
    /\ dep_check = <<>>
    /\ factory = <<>>
    /\ fn_call = [file |-> <<>>, saves |-> 0, lessons |-> <<>>, readable |-> TRUE]

SaveLessons(lessons, readable) ==
    /\ fn_call.saves < MaxSaves
    /\ fn_call' = [file |-> SaveLessonsResult(fn_call.file, lessons, readable),
                   saves |-> fn_call.saves + 1, lessons |-> lessons,
                   readable |-> readable]
    /\ UNCHANGED <<daemonVars, batch, childVars, mctsVars, fileVars, watcher, handler,
                   verify, dep_check, factory, loopVars>>

LessonNext == \E lessons \in LessonBatches, readable \in BOOLEAN : SaveLessons(lessons, readable)

LessonSpec == LessonInit /\ [][LessonNext]_vars

(***************************************************************************)
(* task_daemon/__init__.py: _check_all_complete, called by every output    *)
(* reader at the end of _read_output, against _enqueue_task, the scheduler *)
(* and the other readers.  self._lock is held by one thread at a time.     *)
(***************************************************************************)
\* number of _enqueue_task calls explored
MaxEnqueues == 3

CompleteTasks == {"001-a", "002-b"}

NoThread == "none"

AllCompleteFiredNever(st) == FALSE

\* if self._all_complete_fired: return
AllCompleteFired(st) == st.fired

LockFree(st) == st.lock = NoThread

CompleteInit ==
    /\ DaemonInit
    /\ batch = NoBatch
    /\ ChildOff
    /\ MctsOff
    /\ FilesOff
    /\ watcher = <<>>
    /\ handler = <<>>
    /\ verify = <<>>
    /\ dep_check = <<>>
    /\ factory = <<>>
    /\ fn_call = <<>>
    /\ status_writer = <<>>
    /\ all_complete = [task_queue |-> {}, running_tasks |-> {}, starting |-> {},
                       reader |-> [t \in CompleteTasks |-> "idle"],
                       lock |-> NoThread, fired |-> FALSE, fires |-> 0, enqueues |-> 0]

CompleteUnchanged ==
    UNCHANGED <<daemonVars, batch, childVars, mctsVars, fileVars, watcher, handler,
                verify, dep_check, factory, fn_call, status_writer>>

\* _enqueue_task: append under the lock and reset the flag
EnqueueReset(t) ==
    /\ LockFree(all_complete)
    /\ all_complete.enqueues < MaxEnqueues
    /\ all_complete.reader[t] = "idle"
    /\ t \notin all_complete.task_queue \cup all_complete.running_tasks \cup all_complete.starting
    /\ all_complete' = [all_complete EXCEPT !.task_queue = @ \cup {t}, !.fired = FALSE,
                                            !.fires = 0, !.enqueues = @ + 1]
    /\ CompleteUnchanged

\* _get_next_ready_task: the scheduler pops the task under the lock
PopTask(t) ==
    /\ LockFree(all_complete)
    /\ t \in all_complete.task_queue
    /\ all_complete' = [all_complete EXCEPT !.task_queue = @ \ {t}, !.starting = @ \cup {t}]
    /\ CompleteUnchanged

\* _start_task: running_tasks[spec_id] = state, then the reader thread starts
StartTask(t) ==
    /\ LockFree(all_complete)
    /\ t \in all_complete.starting
    /\ all_complete' = [all_complete EXCEPT !.starting = @ \ {t},
                                            !.running_tasks = @ \cup {t},
                                            !.reader[t] = "reading"]
    /\ CompleteUnchanged

\* _read_output: del self.running_tasks[spec_id] under the lock
ReaderCleanup(t) ==
    /\ LockFree(all_complete)
    /\ all_complete.reader[t] = "reading"
    /\ all_complete' = [all_complete EXCEPT !.running_tasks = @ \ {t}, !.reader[t] = "check"]
    /\ CompleteUnchanged

\* _check_all_complete: with self._lock
CheckAcquire(t) ==
    /\ LockFree(all_complete)
    /\ all_complete.reader[t] = "check"
    /\ all_complete' = [all_complete EXCEPT !.lock = t, !.reader[t] = "locked"]
    /\ CompleteUnchanged

\* if len(self.running_tasks) == 0 and len(self.task_queue) == 0
CheckEmpty(t) ==
    /\ all_complete.reader[t] = "locked"
    /\ IF all_complete.running_tasks = {} /\ all_complete.task_queue = {}
       THEN all_complete' = [all_complete EXCEPT !.reader[t] = "test_fired"]
       ELSE all_complete' = [all_complete EXCEPT !.reader[t] = "idle", !.lock = NoThread]
    /\ CompleteUnchanged

\* the test of the flag and its assignment
CheckFired(t) ==
    /\ all_complete.reader[t] = "test_fired"
    /\ IF AllCompleteFired(all_complete)
       THEN all_complete' = [all_complete EXCEPT !.reader[t] = "idle", !.lock = NoThread]
       ELSE all_complete' = [all_complete EXCEPT !.reader[t] = "callback", !.fired = TRUE]
    /\ CompleteUnchanged

\* self._on_all_tasks_complete(), then the lock is released
FireAllComplete(t) ==
    /\ all_complete.reader[t] = "callback"
    /\ all_complete' = [all_complete EXCEPT !.reader[t] = "idle", !.lock = NoThread,
                                            !.fires = @ + 1]
    /\ CompleteUnchanged

CompleteNext ==
    \E t \in CompleteTasks :
        \/ EnqueueReset(t)
        \/ PopTask(t)
        \/ StartTask(t)
        \/ ReaderCleanup(t)
        \/ CheckAcquire(t)
        \/ CheckEmpty(t)
        \/ CheckFired(t)
        \/ FireAllComplete(t)

CompleteSpec == CompleteInit /\ [][CompleteNext]_vars

(***************************************************************************)
(* agents/tools_pkg/tools/subtask.py: _calculate_task_depth applied to the *)
(* specs directories a project can hold: every assignment of parentTask    *)
(* and of the presence of the plan file to DepthDirs directories (a parent *)
(* id may name a directory that does not exist), and one chain longer than *)
(* the safety limit.                                                       *)
(***************************************************************************)
\* number of spec directories of the enumerated projects
DepthDirs == 3

\* number of directories of the long chain
LongChain == 12

DepthProjects ==
    [1..DepthDirs -> [parentTask : 0..(DepthDirs + 1), has_plan : BOOLEAN]]
        \cup {[i \in 1..LongChain |-> [parentTask |-> i - 1, has_plan |-> TRUE]]}

DepthInit ==
    /\ DaemonInit
    /\ LoopOff
    /\ batch = NoBatch
    /\ ChildOff
    /\ MctsOff
    /\ FilesOff
    /\ watcher = <<>>
    /\ handler = <<>>
    /\ verify = <<>>
    /\ dep_check = <<>>
    /\ factory = <<>>
    /\ \E dirs \in DepthProjects :
          \E spec_dir \in DOMAIN dirs :
              fn_call = [pc |-> "call", dirs |-> dirs, spec_dir |-> spec_dir, depth |-> 0]

CalculateTaskDepthCall ==
    /\ fn_call.pc = "call"
    /\ fn_call' = [fn_call EXCEPT !.pc = "done",
                                  !.depth = CalculateTaskDepth(fn_call.dirs, fn_call.spec_dir)]
    /\ UNCHANGED <<daemonVars, batch, childVars, mctsVars, fileVars, watcher, handler,
                   verify, dep_check, factory, loopVars>>

DepthNext == CalculateTaskDepthCall

DepthSpec == DepthInit /\ [][DepthNext]_vars

(***************************************************************************)
(* Properties of the daemon                                                *)
(***************************************************************************)
\* the scheduler spawns a process for s in this step
Dispatches(s) == sched.pc = "idle" /\ sched'.pc = "register" /\ sched'.task.spec_id = s

\* a queue entry that is ready: plan in a queue status, dependencies met
IsReady(task) ==
    /\ plan[task.spec_id].status \in QUEUE_STATUSES
    /\ \A i \in 1..Len(task.depends_on) : IsDepMet(task.depends_on[i], completed_set)

\* C1: in every reachable state the number of entries in running_tasks is at
\* most max_concurrent_tasks
C1_RunningWithinLimit == Cardinality(DOMAIN running_tasks) <= max_concurrent_tasks

\* all slots are taken while a ready task waits in the queue
C1_Witness ==
    /\ Cardinality(DOMAIN running_tasks) = max_concurrent_tasks
    /\ \E i \in 1..Len(task_queue) : IsReady(task_queue[i])

\* C2: whenever the scheduler dispatches a task, every entry of its
\* depends_on list is matched by the completion set as it is when the pick
\* ends; a task with an empty list is always eligible
C2_DispatchOnlyWhenDepsMet ==
    [][\A s \in Specs : Dispatches(s) =>
          \A i \in 1..Len(sched'.task.depends_on) :
              IsDepMet(sched'.task.depends_on[i], completed_set')]_vars

\* a task with a dependency has been dispatched
C2_Witness == sched.pc = "register" /\ sched.task.depends_on # <<>>

\* C3: once a spec is in the completion set the daemon never dispatches it
\* again (stated for runs in which no plan file is rewritten from outside)
C3_CompletedNeverDispatched ==
    [][\A s \in Specs : (ext_writes = 0 /\ Dispatches(s)) => s \notin completed_set]_vars

\* C4: stuck recovery kills the process of a spec at most max_recovery times
C4_KillsWithinMaxRecovery == \A s \in Specs : kills[s] <= max_recovery

\* C5: when the scheduler dispatches a task, no other entry of the queue that
\* was ready before the pick has a lower priority value, or the same priority
\* and an earlier queued_at
C5_DispatchInPriorityOrder ==
    [][\A s \in Specs : Dispatches(s) =>
          \A i \in 1..Len(task_queue) :
              IsReady(task_queue[i]) =>
                  \/ sched'.task.priority < task_queue[i].priority
                  \/ /\ sched'.task.priority = task_queue[i].priority
                     /\ sched'.task.queued_at <= task_queue[i].queued_at]_vars

\* a task was dispatched while another ready task of a higher priority value waits
C5_Witness ==
    /\ sched.pc = "register"
    /\ \E i \in 1..Len(task_queue) :
          IsReady(task_queue[i]) /\ task_queue[i].priority > sched.task.priority

\* C6: every live child process has an entry in running_tasks, except the one
\* the scheduler has spawned and is about to register
C6_LiveProcessHasEntry ==
    \A s \in Specs :
        proc[s] = "alive" =>
            \/ s \in DOMAIN running_tasks
            \/ sched.pc = "register" /\ sched.task.spec_id = s

\* C7: when the daemon is not stopping, recovery of a task whose incremented
\* count is at most max_recovery ends with the count at the incremented value,
\* the process of the task not alive, no running_tasks entry, plan status
\* queue and the spec in the task queue
C7_RecoveryEndState ==
    [][(checker.pc = "cleanup" /\ checker'.pc # "cleanup" /\ stop_state = "no") =>
          LET s == checker.cur.spec
          IN /\ recovery_counts'[s] = checker.count
             /\ checker.cur.current => proc'[s] # "alive"
             /\ s \notin DOMAIN running_tasks'
             /\ plan'[s].status = "queue"
             /\ InQueue(task_queue', s)]_vars

\* the stuck checker has collected s, or is between the kill and the re-enqueue
BeingRecovered(s) ==
    \/ s \in DOMAIN running_tasks /\ running_tasks[s].recovering
    \/ \E e \in checker.todo : e.spec = s
    \/ checker.pc = "cleanup" /\ checker.cur.spec = s

\* C8: when the reader of a process that exited with code 0 finishes and no
\* recovery of the spec is under way, the spec is in the completion set, its
\* recovery count is reset, it has no running_tasks entry, and its plan status
\* is human_review unless it was complete or done
C8_SuccessfulExitCompletes ==
    [][\A s \in Specs :
          ( /\ reader[s] = "wait" /\ reader'[s] = "none"
            /\ proc[s] = "exit0"
            /\ ~BeingRecovered(s) ) =>
          /\ s \in completed_set'
          /\ recovery_counts'[s] = 0
          /\ s \notin DOMAIN running_tasks'
          /\ plan'[s].status = IF plan[s].status \in {"complete", "done"}
                               THEN plan[s].status ELSE "human_review"]_vars

\* C9: B depends on A and both are queued; once the process of A has exited
\* with code 0, B is eventually dispatched, and B is never dispatched before
\* A is in the completion set
C9_DependentEventuallyDispatched ==
    /\ [](proc[SpecB] # "none" => SpecA \in completed_set)
    /\ (plan[SpecB].dependsOn = <<RefBareNumber>> /\ proc[SpecA] = "exit0")
          ~> (proc[SpecB] = "alive")

(***************************************************************************)
(* Properties of the batch creation                                        *)
(***************************************************************************)
\* the keys registered for the created child at position k
KeysOf(k) ==
    LET keys == RegisteredKeys(k, batch.created_specs[k], batch.valid_spec_defs[k].task)
    IN {keys[i] : i \in 1..Len(keys)}

CreatedIds == {batch.created_specs[k] : k \in 1..Len(batch.created_specs)}

\* every resolved entry is the ID of a created sibling or the unchanged input,
\* and an entry left unchanged is no placeholder registered for a sibling
ResolvedOrPassThrough ==
    batch.pc = "done" =>
        \A j \in 1..Len(batch.created_specs) :
            \A p \in 1..Len(batch.valid_spec_defs[j].depends_on) :
                LET input == batch.valid_spec_defs[j].depends_on[p]
                    output == batch.dependsOn[j][p]
                IN /\ output \in CreatedIds \/ output = input
                   /\ output \notin CreatedIds =>
                         \A k \in 1..Len(batch.created_specs) : input \notin KeysOf(k)

\* C10: after create_batch_specs every entry of every child's dependsOn is a
\* created sibling's ID or the unchanged input, no entry is left as a
\* placeholder a sibling registered, and a placeholder registered for the
\* child at position k is resolved to that child's ID
C10_BatchResolution ==
    /\ ResolvedOrPassThrough
    /\ batch.pc = "done" =>
          \A j \in 1..Len(batch.created_specs) :
              \A p \in 1..Len(batch.valid_spec_defs[j].depends_on) :
                  \A k \in 1..Len(batch.created_specs) :
                      batch.valid_spec_defs[j].depends_on[p] \in KeysOf(k) =>
                          batch.dependsOn[j][p] = batch.created_specs[k]

(***************************************************************************)
(* Properties of child-spec creation                                       *)
(***************************************************************************)
RECURSIVE ChainLength(_, _)
\* the length of the parentTask chain of a spec directory
ChainLength(dirs, d) ==
    IF dirs[d].parentTask = NoParent THEN 0
    ELSE 1 + ChainLength(dirs, dirs[d].parentTask)

\* C11: for every parent spec, at most one create_batch_child_specs call
\* creates child directories, whatever the order and interleaving of the calls
C11_OneCreatingBatchCall ==
    \A p \in DOMAIN batch_creators : Cardinality(batch_creators[p]) <= 1

\* C12: no spec directory has a parentTask chain longer than MAX_CHILD_DEPTH
C12_DepthWithinLimit ==
    \A d \in DOMAIN spec_dirs : ChainLength(spec_dirs, d) <= MAX_CHILD_DEPTH

\* C13: no spec of a design-only task type exists at depth 2 or deeper, and a
\* tool call refused by the design guard has created nothing
C13_NoDesignBelowDepthOne ==
    /\ \A d \in DOMAIN spec_dirs :
          spec_dirs[d].taskType \in DESIGN_ONLY_TYPES => ChainLength(spec_dirs, d) < 2
    /\ \A c \in DOMAIN tool_calls :
          tool_calls[c].result = "design" =>
             /\ tool_calls[c].created = <<>>
             /\ \A d \in DOMAIN spec_dirs :
                   spec_dirs[d].parentTask = tool_calls[c].parent =>
                      spec_dirs[d].taskType \notin DESIGN_ONLY_TYPES

\* a design request was refused at depth 2 while an impl spec exists at depth 2
C13_Witness ==
    /\ \E c \in DOMAIN tool_calls : tool_calls[c].result = "design"
    /\ \E d \in DOMAIN spec_dirs :
          spec_dirs[d].taskType = "impl" /\ ChainLength(spec_dirs, d) = 2

(***************************************************************************)
(* Properties of the MCTS tree                                             *)
(***************************************************************************)
\* this step is a backpropagate call
IsBackprop == score_history' # score_history

RECURSIVE AncestorsOf(_, _)
AncestorsOf(nodes, n) ==
    IF nodes[n].parent_id = NoNode \/ nodes[n].parent_id \notin DOMAIN nodes THEN {}
    ELSE {nodes[n].parent_id} \cup AncestorsOf(nodes, nodes[n].parent_id)

\* C15: best_node_id moves only to a node whose score is strictly greater than
\* the score of the node it referenced before; a call with an equal score
\* leaves it where it is
C15_BestMovesOnlyUp ==
    [][(IsBackprop /\ tree.best_node_id # NoNode) =>
          LET call == score_history'[Len(score_history')]
              old == tree.best_node_id
          IN /\ tree'.best_node_id # old =>
                   /\ tree'.nodes[tree'.best_node_id].score > tree.nodes[old].score
                   /\ tree'.nodes[tree'.best_node_id].score > tree'.nodes[old].score
             /\ (call.node # old /\ call.score = tree.nodes[old].score) =>
                   tree'.best_node_id = old]_vars

\* a later node was scored with the score of the best node and the best node stayed
C15_Witness ==
    /\ Len(score_history) >= 2
    /\ tree.best_node_id = score_history[1].node
    /\ \E i \in 2..Len(score_history) :
          /\ score_history[i].node # tree.best_node_id
          /\ score_history[i].score = tree.nodes[tree.best_node_id].score

\* the position in score_history at which the score of node n was set last
SetAt(n) ==
    CHOOSE i \in 1..Len(score_history) :
        /\ score_history[i].node = n
        /\ \A j \in (i + 1)..Len(score_history) : score_history[j].node # n

ScoredNodes == {score_history[i].node : i \in 1..Len(score_history)}

\* best_node_id is the evaluated non-root node of maximum score, the one set
\* earliest among equals
BestIsMaximum ==
    LET cand == {n \in ScoredNodes : n # tree.root_id /\ tree.nodes[n].score >= 0}
    IN cand # {} =>
          /\ tree.best_node_id \in cand
          /\ \A n \in cand :
                \/ tree.nodes[n].score < tree.nodes[tree.best_node_id].score
                \/ /\ tree.nodes[n].score = tree.nodes[tree.best_node_id].score
                   /\ SetAt(tree.best_node_id) <= SetAt(n)

\* every backpropagate call so far was the first one for its node, and none
\* was for the root
ScoredOnce ==
    /\ \A i, j \in 1..Len(score_history) :
          score_history[i].node = score_history[j].node => i = j
    /\ tree.root_id \notin ScoredNodes

\* C16 as stated: after any sequence of expand_node and backpropagate calls
\* best_node_id is the evaluated non-root node of maximum score, ties broken
\* by the earliest set
C16_BestIsMaximumAlways == BestIsMaximum

\* C16 amended: the same, for sequences in which the score of every node is
\* set at most once and the root is not backpropagated
C16_BestIsMaximumWhenScoredOnce == ScoredOnce => BestIsMaximum

\* three nodes scored once each, the best one neither the first nor the last
C16_Witness ==
    /\ ScoredOnce
    /\ Len(score_history) = 3
    /\ tree.best_node_id = score_history[2].node
    /\ score_history[3].score = score_history[2].score

\* C17: backpropagate(node_id, score) sets the score of that node only, adds 1
\* to visit_count of the node and of each of its ancestors, and changes
\* nothing else in any node
C17_BackpropagateFrame ==
    [][IsBackprop =>
          LET call == score_history'[Len(score_history')]
              up == AncestorsOf(tree.nodes, call.node)
          IN /\ DOMAIN tree'.nodes = DOMAIN tree.nodes
             /\ tree'.nodes[call.node] =
                   [tree.nodes[call.node] EXCEPT !.score = call.score,
                                                 !.visit_count = @ + 1]
             /\ \A n \in up :
                   tree'.nodes[n] = [tree.nodes[n] EXCEPT !.visit_count = @ + 1]
             /\ \A n \in DOMAIN tree.nodes \ (up \cup {call.node}) :
                   tree'.nodes[n] = tree.nodes[n]]_vars

\* a node two levels below the root was backpropagated with a score that
\* differs from the scores of its ancestors
C17_Witness ==
    /\ score_history # <<>>
    /\ LET call == score_history[Len(score_history)]
       IN /\ Cardinality(AncestorsOf(tree.nodes, call.node)) = 2
          /\ \A n \in AncestorsOf(tree.nodes, call.node) :
                tree.nodes[n].score # call.score /\ tree.nodes[n].visit_count >= 1
          /\ \E n \in DOMAIN tree.nodes : tree.nodes[n].visit_count = 0

(***************************************************************************)
(* Properties of the MCTS search                                           *)
(***************************************************************************)
\* the child spec directories of the MCTS task
MctsChildren == {d \in DOMAIN spec_dirs : spec_dirs[d].parentTask = mcts.spec_dir}

\* C14: when the depth of the MCTS spec plus 1 exceeds MAX_CHILD_DEPTH, a round
\* creates no spec directory, marks each of its nodes failed with the depth
\* error, leaves spec_id unset and spends no branch budget; otherwise each node
\* of the round gets a spec_id and status running
C14_DepthGuardOfRound ==
    [][(mcts.pc = "loop" /\ mcts'.pc = "wait") =>
          LET ids == mcts'.new_nodes
              new == {ids[i] : i \in 1..Len(ids)}
          IN IF CalculateTaskDepth(spec_dirs, mcts.spec_dir) + 1 > MAX_CHILD_DEPTH
             THEN /\ spec_dirs' = spec_dirs
                  /\ mcts'.budget.spent_branches = mcts.budget.spent_branches
                  /\ \A n \in new : /\ tree'.nodes[n].status = "failed"
                                    /\ tree'.nodes[n].error = "depth"
                                    /\ tree'.nodes[n].spec_id = 0
             ELSE \A n \in new : /\ tree'.nodes[n].spec_id # 0
                                 /\ tree'.nodes[n].status = "running"]_vars

\* the depth-guard half of C14 alone
C14_DepthRefusal ==
    [][(mcts.pc = "loop" /\ mcts'.pc = "wait"
        /\ CalculateTaskDepth(spec_dirs, mcts.spec_dir) + 1 > MAX_CHILD_DEPTH) =>
          LET ids == mcts'.new_nodes
          IN /\ spec_dirs' = spec_dirs
             /\ mcts'.budget.spent_branches = mcts.budget.spent_branches
             /\ \A i \in 1..Len(ids) : /\ tree'.nodes[ids[i]].status = "failed"
                                       /\ tree'.nodes[ids[i]].error = "depth"
                                       /\ tree'.nodes[ids[i]].spec_id = 0]_vars

SharedOpenPath ==
    \E w1, w2 \in Writers :
        /\ w1 # w2
        /\ writers[w1].pc = "writing" /\ writers[w2].pc = "writing"
        /\ OpenPath(w1) = OpenPath(w2)

\* C19: no plan or status file is ever partially written where a reader finds
\* it, every write of these files goes to a temp file that is then renamed,
\* and two writers never have the same temp path open
C19_PlanWritesAtomic ==
    /\ \A f \in {"plan", "verify_plan", "child_plan", "status"} : files[f].kind # "partial"
    /\ \A w \in PlanWriters : writers[w].pc = "writing" => writers[w].path # TargetOf(w)
    /\ ~SharedOpenPath

\* the part of C19 that concerns the status file
C19_StatusFileAtomic == files["status"].kind # "partial"

\* C20: the daemon state file is absent or a complete snapshot, savers never
\* have the same temp file open, and a saver writes to its temp path only
C20_StateFileAtomic ==
    /\ files["state"].kind # "partial"
    /\ ~SharedOpenPath
    /\ \A w \in StateSavers :
          writers[w].pc = "writing" => writers[w].path = StateTempPath(w)

\* the state file holds a complete snapshot while one saver is writing its temp
\* file, another has written its own and a failed write has happened
C20_Witness ==
    /\ files["state"].kind = "complete"
    /\ files["state"].version >= 1
    /\ \E w1, w2 \in StateSavers :
          /\ writers[w1].pc = "writing"
          /\ writers[w2].pc = "written"
          /\ files[StateTempPath(w2)].kind = "complete"

\* C21: every mutation of the state is in the state file when the mutator
\* returns and the file never goes back: a snapshot that replaces the state
\* file is at least as new as the snapshot it replaces
C21_NewerSnapshotKept ==
    [][(files["state"].kind = "complete" /\ files'["state"].kind = "complete")
          => files'["state"].version >= files["state"].version]_vars

(***************************************************************************)
(* Properties of the watcher                                               *)
(***************************************************************************)
\* C22: whatever the number and interleaving of the stop() calls, the observer
\* is stopped at most once and joined at most once, and a stop() call that has
\* returned leaves it stopped and joined
C22_StoppedAndJoinedOnce ==
    /\ watcher.stops <= 1
    /\ watcher.joins <= 1
    /\ (\E c \in StopCallers : watcher.calls[c].n >= 1 /\ watcher.calls[c].pc = "idle")
          => watcher.attr = "None"

\* C23: two callbacks for the same spec are at least debounce_seconds apart,
\* and an event less than debounce_seconds after the last callback for its
\* spec is dropped, whether or not the map was pruned in between
C23_CallbacksDebounced ==
    [][\A s \in WatchedSpecs :
          /\ (s \in DOMAIN handler.calls /\ handler'.calls[s] # handler.calls[s])
                => handler'.calls[s] - handler.calls[s] >= debounce_seconds
          /\ (s \in DOMAIN handler.calls /\ handler'.last.spec_id = s
              /\ handler'.now - handler.calls[s] < debounce_seconds)
                => ~handler'.last.process /\ handler'.calls = handler.calls]_vars

\* an event has just been dropped for a spec, after the entry of another spec
\* that had a callback was pruned from the map
C23_Witness ==
    /\ ~handler.last.process
    /\ handler.last.spec_id \in DOMAIN handler.last_events
    /\ handler.now - handler.calls[handler.last.spec_id] < debounce_seconds
    /\ DOMAIN handler.calls \ DOMAIN handler.last_events # {}

(***************************************************************************)
(* Properties of the verify chain                                          *)
(***************************************************************************)
\* C24: for every spec X, the verify specs whose dependsOn holds X are never
\* more than MAX_VERIFY_ATTEMPTS, whatever the number and interleaving of the
\* _auto_queue_verify calls
C24_VerifyWithinMax ==
    \A x \in VerifyParents :
        Cardinality(VerifyPlansOf(verify.dirs, x)) <= MAX_VERIFY_ATTEMPTS

\* a spec has MAX_VERIFY_ATTEMPTS verify specs, one call for it was refused by
\* the guard on the count and another call for it is under way
C24_Witness ==
    \E x \in VerifyParents, r1, r2 \in VerifyThreads :
        /\ Cardinality(VerifyPlansOf(verify.dirs, x)) = MAX_VERIFY_ATTEMPTS
        /\ verify.calls[r1].result = "max" /\ verify.calls[r1].spec_id = x
        /\ verify.calls[r2].pc = "counted" /\ verify.calls[r2].spec_id = x

(***************************************************************************)
(* Properties of stop(), of the reader's completion logic and of a failed  *)
(* start                                                                   *)
(***************************************************************************)
\* C25: once stop() has returned, no child process spawned by the daemon is
\* alive
C25_NoLiveProcessAfterStop ==
    stop_state = "done" => \A s \in Specs : proc[s] # "alive"

\* the same, leaving aside the process the scheduler has spawned and not yet
\* registered when the join of its thread times out
C25_NoOrphanAfterStop ==
    stop_state = "done" =>
        \A s \in Specs :
            proc[s] = "alive" =>
                \/ sched.pc = "register" /\ sched.task.spec_id = s
                \/ s \in DOMAIN running_tasks

\* the stuck checker is between the kill of the collected process of s and the
\* end of the cleanup wait
InRecovery(s) == checker.pc = "cleanup" /\ checker.cur.spec = s /\ checker.cur.current

\* C28: while _recover_task is recovering the process of a spec, the reader of
\* that process does not run its completion logic: it changes neither the
\* completion set, nor the plan, nor running_tasks
C28_ReaderSkipsRecovered ==
    [][\A s \in Specs :
          (reader[s] = "wait" /\ reader'[s] = "none" /\ InRecovery(s)) =>
          /\ completed_set' = completed_set
          /\ plan' = plan
          /\ running_tasks' = running_tasks]_vars

\* C29: when the reader of a process that exited with a non-zero code finishes
\* and no recovery of the spec is under way, the running_tasks entry is gone;
\* a plan that is complete is left as it is and the spec is in the completion
\* set; otherwise the plan status is error, the error is recorded and the spec
\* is not added to the completion set
C29_NonZeroExit ==
    [][\A s \in Specs :
          ( /\ reader[s] = "wait" /\ reader'[s] = "none"
            /\ proc[s] \in {"exit1", "killed"}
            /\ ~BeingRecovered(s) ) =>
          /\ s \notin DOMAIN running_tasks'
          /\ IF plan[s].status = "complete"
             THEN plan'[s] = plan[s] /\ s \in completed_set'
             ELSE /\ plan'[s].status = "error"
                  /\ last_errors'[s] = "Exit code"
                  /\ s \in completed_set' => s \in completed_set]_vars

\* C29 for a process whose running_tasks entry is still there when its reader
\* finishes
C29_NonZeroExitOfRunningTask ==
    [][\A s \in Specs :
          ( /\ reader[s] = "wait" /\ reader'[s] = "none"
            /\ proc[s] \in {"exit1", "killed"}
            /\ s \in DOMAIN running_tasks ) =>
          /\ s \notin DOMAIN running_tasks'
          /\ IF plan[s].status = "complete"
             THEN plan'[s] = plan[s] /\ s \in completed_set'
             ELSE /\ plan'[s].status = "error"
                  /\ last_errors'[s] = "Exit code"
                  /\ s \in completed_set' => s \in completed_set]_vars

\* C29 for a process that is alive after recovery has given up on its spec
C29_NonZeroExitAfterGiveUp ==
    [][\A s \in Specs :
          ( /\ reader[s] = "wait" /\ reader'[s] = "none"
            /\ proc[s] = "exit1"
            /\ ~BeingRecovered(s)
            /\ recovery_counts[s] > max_recovery
            /\ plan[s].status = "complete" ) =>
          s \in completed_set']_vars

\* the scheduler picks s, _start_task goes on to build and spawn, and no
\* process is spawned: build_command gave no command or spawn_process raised
FailedStart(s) ==
    /\ sched.pc = "idle" /\ sched'.pc = "idle"
    /\ sched'.task # sched.task
    /\ sched'.task.spec_id = s
    /\ StartDecision(s, plan, running_tasks) = "start"

\* C30: when the start of a dispatched task fails, an error is recorded for the
\* spec, its plan status is error and it has no running_tasks entry
C30_FailedStartIsTerminal ==
    [][\A s \in Specs :
          FailedStart(s) =>
          /\ last_errors'[s] # ""
          /\ plan'[s].status = "error"
          /\ s \notin DOMAIN running_tasks']_vars

\* the part of C30 that the code keeps: a failed start leaves no running_tasks
\* entry and no process, and a spawn that raised is recorded
C30_FailedStartLeavesNoEntry ==
    [][\A s \in Specs :
          FailedStart(s) =>
          /\ s \notin DOMAIN running_tasks'
          /\ proc'[s] = proc[s]]_vars

(***************************************************************************)
(* Properties of dependency matching                                       *)
(***************************************************************************)
\* the matching rule as three tiers over the digits the reference starts
\* with (the bare number) and their zero-padded form N
MetAsStated(dep, completed) ==
    LET bare == LeadingDigits(dep)
        N == ZFill3(bare)
    IN \/ dep \in completed
       \/ /\ bare # <<>>
          /\ \/ /\ dep = bare
                /\ \E c \in completed : StartsWith(c, N \o <<"-">>)
             \/ \E c \in completed : /\ StartsWith(c, N \o <<"-">>)
                                     /\ StartsWith(Lower(c), Lower(dep))
       \/ /\ Len(dep) >= 3
          /\ \E c \in completed : StartsWith(Lower(c), Lower(dep))

\* a reference that is a bare number written with fewer than three digits
UnpaddedNumber(dep) == dep # <<>> /\ dep = LeadingDigits(dep) /\ Len(dep) < 3

\* C26: for every dependency string and completion set, _is_dep_met returns
\* true exactly when the reference equals a completed ID, or starts with
\* digits and (is just that bare number while a completed ID starts with
\* "N-", or a completed ID starts with "N-" and with the whole reference), or
\* has at least 3 characters and is a prefix of a completed ID
C26_DepMetAsStated ==
    dep_check # <<>> /\ dep_check.pc = "return"
        => (dep_check.met <=> MetAsStated(dep_check.dep, dep_check.completed))

\* the same for every reference that is not a bare number of fewer than
\* three digits
C26_DepMetUnlessUnpadded ==
    dep_check # <<>> /\ dep_check.pc = "return" /\ ~UnpaddedNumber(dep_check.dep)
        => (dep_check.met <=> MetAsStated(dep_check.dep, dep_check.completed))

(***************************************************************************)
(* Properties of the spec factory                                          *)
(***************************************************************************)
RECURSIVE DecimalVal(_)
DecimalVal(s) == IF s = <<>> THEN 0
                 ELSE 10 * DecimalVal(SubSeq(s, 1, Len(s) - 1)) + DigitVal(s[Len(s)])

\* the largest number a directory name starts with, among the names that
\* start with three digits or more
MaxPrefixNumber(dirs) ==
    LET nums == {DecimalVal(LeadingDigits(d)) :
                   d \in {x \in dirs : Len(LeadingDigits(x)) >= 3}} \cup {0}
    IN CHOOSE n \in nums : \A m \in nums : m <= n

\* C27: the directory create_child_spec makes for a generated spec ID did
\* not exist before, whatever directories exist and whatever descriptions
\* are given
C27_GeneratedIdIsNew ==
    factory # <<>> => \A p \in FactoryCallers :
        factory.calls[p].pc = "made" => ~factory.calls[p].existed

\* the generated ID is not among the directories the generating call listed
C27_GeneratedIdNotListed ==
    factory # <<>> => \A p \in FactoryCallers :
        factory.calls[p].pc # "idle" => factory.calls[p].spec_id \notin factory.calls[p].seen

\* the number a generated ID starts with is one more than the largest
\* number a listed directory name starts with
C27_SequenceIsMaxPlusOne ==
    factory # <<>> => \A p \in FactoryCallers :
        factory.calls[p].pc # "idle"
            => DecimalVal(LeadingDigits(factory.calls[p].spec_id))
                  = MaxPrefixNumber(factory.calls[p].seen) + 1

(***************************************************************************)
(* Properties of the startup scan                                          *)
(***************************************************************************)
\* the number of queue entries of spec s
QueueCount(q, s) == Cardinality({i \in 1..Len(q) : q[i].spec_id = s})

\* the statuses of the completed class: done, completed, merged, pr_created
\* and complete
CompletedClass == {"done", "completed", "merged", "pr_created", "complete"}

\* C31: after the startup scan every spec whose plan status is queue,
\* backlog or queued is in the task queue exactly once, and every spec whose
\* plan status is done, completed, merged, pr_created or complete is in the
\* completion set
C31_ScanQueuesAndRecords ==
    started => \A s \in Specs :
        /\ plan[s].status \in QUEUE_STATUSES => QueueCount(task_queue, s) = 1
        /\ plan[s].status \in CompletedClass => s \in completed_set

\* the same for the statuses the scan tests for: the queue class is queued
\* once, done, completed, merged and pr_created are recorded
C31_ScanQueuesAndRecordsListed ==
    started => \A s \in Specs :
        /\ plan[s].status \in QUEUE_STATUSES => QueueCount(task_queue, s) = 1
        /\ plan[s].status \in COMPLETED_STATUSES => s \in completed_set

(***************************************************************************)
(* Properties of the readiness scan                                        *)
(***************************************************************************)
\* the entries of q whose spec is in keep, in the order of q
RECURSIVE KeepEntries(_, _)
KeepEntries(q, keep) ==
    IF q = <<>> THEN <<>>
    ELSE IF Head(q).spec_id \in keep THEN <<Head(q)>> \o KeepEntries(Tail(q), keep)
         ELSE KeepEntries(Tail(q), keep)

ScanReturned == fn_call # <<>> /\ fn_call.pc = "return" /\ "queue_before" \in DOMAIN fn_call

\* what a scan does with the entries whose status is in the set gone: none
\* of them is left in the queue, the completed ones are in the completion
\* set, the returned entry is not one of them, and the entries left stand in
\* the order they had
ScanEvicts(gone) ==
    LET before == fn_call.queue_before
        after == fn_call.task_queue
        status(s) == fn_call.plans[s].status
    IN /\ \A i \in 1..Len(after) : status(after[i].spec_id) \notin gone
       /\ \A i \in 1..Len(before) :
             status(before[i].spec_id) \in COMPLETED_STATUSES
                => before[i].spec_id \in fn_call.completed
       /\ fn_call.task # NoTask => status(fn_call.task.spec_id) \notin gone
       /\ after = KeepEntries(before, {after[i].spec_id : i \in 1..Len(after)})

\* C32: after a readiness scan the queue holds no entry whose plan status is
\* a completed or a running status, the completed ones are in the completion
\* set, the entry returned as ready is not an evicted one, and the remaining
\* entries keep their order
C32_ScanEvictsCompletedAndRunning ==
    ScanReturned => ScanEvicts(COMPLETED_STATUSES \cup RUNNING_STATUSES)

\* the same for the completed statuses alone; an entry with a running
\* status is never the one returned
C32_ScanEvictsCompleted ==
    ScanReturned =>
        /\ ScanEvicts(COMPLETED_STATUSES)
        /\ fn_call.task # NoTask
              => fn_call.plans[fn_call.task.spec_id].status \notin RUNNING_STATUSES

(***************************************************************************)
(* Properties of a dependency that never resolves                          *)
(***************************************************************************)
\* the queue entry at index i waits for a reference that no spec matches
IsDangling(task) == \E k \in 1..Len(task.depends_on) : task.depends_on[k] = RefDangling

\* C33: a queued task with a dependency that never resolves is never
\* dispatched and stays in the queue, and while it waits a readiness scan
\* still returns a task whenever a queued task is ready, wherever the two
\* stand in the priority order
C33_DanglingDependencyWaits ==
    [][\A i \in 1..Len(task_queue) : IsDangling(task_queue[i]) =>
          /\ ~Dispatches(task_queue[i].spec_id)
          /\ InQueue(task_queue', task_queue[i].spec_id)
          /\ (\E j \in 1..Len(task_queue) : IsReady(task_queue[j]))
                => LET r == GetNextReadyTask(task_queue, plan, completed_set)
                   IN r.task # NoTask /\ ~IsDangling(r.task)]_vars

\* a task was dispatched from behind a waiting task whose dependency never
\* resolves
C33_Witness ==
    /\ sched.pc = "register"
    /\ \E i \in 1..Len(task_queue) :
          /\ IsDangling(task_queue[i])
          /\ QueuedTaskLt(task_queue[i], sched.task)

(***************************************************************************)
(* Properties of the wait for the branches of a round                      *)
(***************************************************************************)
\* _wait_for_completion has returned and the round is not yet evaluated
WaitReturned == mcts # <<>> /\ mcts.pc = "evaluate"

RoundNodes == {mcts.new_nodes[i] : i \in 1..Len(mcts.new_nodes)}

\* C34: when _wait_for_completion returns, every node of the round is
\* completed or failed; none is left pending or running
C34_RoundTerminalAfterWait ==
    WaitReturned => \A n \in RoundNodes : tree.nodes[n].status \in {"completed", "failed"}

\* the same for the rounds in which every node has a task description
C34_RoundTerminalWhenDescribed ==
    WaitReturned /\ (\A n \in RoundNodes : tree.nodes[n].idea_summary # "")
        => \A n \in RoundNodes : tree.nodes[n].status \in {"completed", "failed"}

(***************************************************************************)
(* Properties of run_validators                                            *)
(***************************************************************************)
ValidatorsRun == fn_call # <<>> /\ "validators" \in DOMAIN fn_call

BuildResultFailed ==
    \E i \in 1..Len(fn_call.results) :
        fn_call.results[i].validator_id = "build" /\ ~fn_call.results[i].passed

\* C35: the build validator's validate begins before that of any runtime
\* validator; after a failed build no runtime validator is invoked and each
\* of them gets a skipped result; the returned list has exactly one result
\* per selected validator
C35_BuildFirstOneResultEach ==
    ValidatorsRun =>
        /\ \A i \in 1..Len(fn_call.invoked) :
              fn_call.invoked[i] # "build"
                 => \E j \in 1..(i - 1) : fn_call.invoked[j] = "build"
        /\ BuildResultFailed =>
              /\ \A i \in 1..Len(fn_call.invoked) : fn_call.invoked[i] = "build"
              /\ \A i \in 1..Len(fn_call.results) :
                    fn_call.results[i].validator_id # "build"
                       => fn_call.results[i].kind = "skipped"
        /\ fn_call.pc = "return" =>
              /\ Len(fn_call.results) = Len(fn_call.validators)
              /\ \A i \in 1..Len(fn_call.validators) :
                    Cardinality({j \in 1..Len(fn_call.results) :
                        fn_call.results[j].validator_id = fn_call.validators[i]}) = 1

\* run_validators has returned after a failed build with runtime validators
\* selected
C35_Witness ==
    /\ ValidatorsRun
    /\ fn_call.pc = "return"
    /\ BuildResultFailed
    /\ Len(fn_call.validators) > 2

\* run_validators has returned the results of a passed build and of runtime
\* validators of which one raised
C35_WitnessRuntime ==
    /\ ValidatorsRun
    /\ fn_call.pc = "return"
    /\ ~BuildResultFailed
    /\ \E i \in 1..Len(fn_call.results) : fn_call.results[i].kind = "error"

(***************************************************************************)
(* Properties of the status writer                                         *)
(***************************************************************************)
\* the writer waits on a cleared event only after a snapshot that holds
\* every change signalled so far
NoSignalLost ==
    status_writer # <<>> =>
        /\ status_writer.pc = "wait" /\ ~status_writer.dirty
              => status_writer.snap >= status_writer.signalled
        /\ status_writer.written <= status_writer.snap
        /\ status_writer.snap <= status_writer.version

LessonsSaved == fn_call # <<>> /\ "file" \in DOMAIN fn_call

DistinctIds(lessons) ==
    \A i \in 1..Len(lessons), j \in 1..Len(lessons) :
        lessons[i].id = lessons[j].id => i = j

\* C37: after any sequence of saves the file holds no two lessons with the
\* same id, and a save leaves every lesson of the file in place and as it
\* was
C37_LessonsMergedById ==
    [][LessonsSaved =>
          /\ DistinctIds(fn_call'.file)
          /\ Len(fn_call'.file) >= Len(fn_call.file)
          /\ SubSeq(fn_call'.file, 1, Len(fn_call.file)) = fn_call.file]_vars

\* the same for saves of lists without a repeated id on a file that can be
\* read
C37_LessonsMergedWhenDistinct ==
    [][LessonsSaved /\ DistinctIds(fn_call.file)
          /\ DistinctIds(fn_call'.lessons) /\ fn_call'.readable =>
          /\ DistinctIds(fn_call'.file)
          /\ Len(fn_call'.file) >= Len(fn_call.file)
          /\ SubSeq(fn_call'.file, 1, Len(fn_call.file)) = fn_call.file]_vars

\* no save makes the lessons of a file that can be read repeat an id of the
\* file
C37_NoRepeatOfWrittenId ==
    [][LessonsSaved /\ fn_call'.readable =>
          \A i \in 1..Len(fn_call.file), j \in (Len(fn_call.file) + 1)..Len(fn_call'.file) :
              fn_call'.file[j].id # fn_call.file[i].id]_vars

(***************************************************************************)
(* Properties of the all-complete callback                                 *)
(***************************************************************************)
CompleteOn == all_complete # <<>>

\* C38: between two enqueues the callback is invoked at most once, and it
\* is invoked only while running_tasks and task_queue are both empty,
\* however the output readers interleave
C38_AllCompleteOncePerCycle ==
    CompleteOn =>
        /\ all_complete.fires <= 1
        /\ \A t \in CompleteTasks :
              all_complete.reader[t] = "callback" =>
                  all_complete.running_tasks = {} /\ all_complete.task_queue = {}

\* a second reader finds both collections empty after the callback of the
\* cycle was invoked
C38_Witness ==
    /\ CompleteOn
    /\ all_complete.fires = 1
    /\ all_complete.enqueues >= 2
    /\ \E t \in CompleteTasks : all_complete.reader[t] = "test_fired"

\* not an invariant: the callback is also invoked while the scheduler holds
\* a popped task that is not registered as running yet
C38_NeverFiresWhileStarting ==
    CompleteOn =>
        \A t \in CompleteTasks : all_complete.reader[t] = "callback" => all_complete.starting = {}

(***************************************************************************)
(* Properties of the queue and the running tasks                           *)
(***************************************************************************)
QueueIdsDistinct ==
    \A i \in 1..Len(task_queue), j \in 1..Len(task_queue) :
        task_queue[i].spec_id = task_queue[j].spec_id => i = j

QueuedNotRunning ==
    \A i \in 1..Len(task_queue) : task_queue[i].spec_id \notin DOMAIN running_tasks

\* C39: in every reachable state no spec id is twice in task_queue and no
\* spec id is in task_queue and in running_tasks at once, however watcher
\* events, the scheduler's pop and registration, and the re-enqueue of the
\* stuck recovery interleave
C39_QueuedOnceAndNotRunning == QueueIdsDistinct /\ QueuedNotRunning

\* no spec id is twice in task_queue
C39_QueuedOnce == QueueIdsDistinct

\* a spec id is queued and running at once only after it was queued while
\* the scheduler held it popped and unregistered
C39_QueuedNotRunningOutsideWindow ==
    [][QueuedNotRunning /\ sched.pc # "register" => QueuedNotRunning']_vars

(***************************************************************************)
(* Properties of the depth of a spec                                       *)
(***************************************************************************)
ParentsOf(dirs, set) ==
    {dirs[x].parentTask : x \in set \cap DOMAIN dirs} \ {NoParent}

RECURSIVE AncestorsWithin(_, _, _)
AncestorsWithin(dirs, set, n) ==
    IF n = 0 THEN set
    ELSE AncestorsWithin(dirs, set \cup ParentsOf(dirs, set), n - 1)

\* the specs reached from s through parentTask
Ancestors(dirs, s) == AncestorsWithin(dirs, ParentsOf(dirs, {s}), Cardinality(DOMAIN dirs))

ChainPlansExist(dirs, s) ==
    \A x \in {s} \cup Ancestors(dirs, s) : x \in DOMAIN dirs /\ dirs[x].has_plan

ChainCyclic(dirs, s) ==
    \E x \in {s} \cup Ancestors(dirs, s) : x \in Ancestors(dirs, x)

\* the number of parentTask links above s, for a chain without a cycle
ParentChainLength(dirs, s) == Cardinality(Ancestors(dirs, s))

DepthReturned == fn_call # <<>> /\ "depth" \in DOMAIN fn_call /\ fn_call.pc = "done"

\* C40: _calculate_task_depth returns the length of the parentTask chain of
\* the spec (0 without parent, 1 for a child, 2 for a grandchild) when the
\* plan files of the chain exist and the chain has at most 10 links, and
\* on every input, a cyclic chain included, it returns a value of at most 10
C40_DepthIsChainLength ==
    DepthReturned =>
        LET dirs == fn_call.dirs
            s == fn_call.spec_dir
        IN /\ fn_call.depth \in 0..DepthSafetyLimit
           /\ (ChainPlansExist(dirs, s) /\ ~ChainCyclic(dirs, s)
                 /\ ParentChainLength(dirs, s) <= DepthSafetyLimit) =>
                 fn_call.depth = ParentChainLength(dirs, s)

\* the depth of a grandchild whose plan files exist has been computed
C40_Witness ==
    /\ DepthReturned
    /\ ChainPlansExist(fn_call.dirs, fn_call.spec_dir)
    /\ ~ChainCyclic(fn_call.dirs, fn_call.spec_dir)
    /\ ParentChainLength(fn_call.dirs, fn_call.spec_dir) = 2
    /\ fn_call.depth = 2

\* the depth of a spec on a cyclic chain has been computed
C40_WitnessCyclic ==
    /\ DepthReturned
    /\ ChainPlansExist(fn_call.dirs, fn_call.spec_dir)
    /\ ChainCyclic(fn_call.dirs, fn_call.spec_dir)
    /\ fn_call.depth = DepthSafetyLimit

\* a chain of more than 10 links has the depth 10
C40_LongChainCapped ==
    DepthReturned /\ ~ChainCyclic(fn_call.dirs, fn_call.spec_dir)
        /\ ChainPlansExist(fn_call.dirs, fn_call.spec_dir)
        /\ ParentChainLength(fn_call.dirs, fn_call.spec_dir) > DepthSafetyLimit =>
        fn_call.depth = DepthSafetyLimit

C40_WitnessLongChain ==
    /\ DepthReturned
    /\ ParentChainLength(fn_call.dirs, fn_call.spec_dir) > DepthSafetyLimit
    /\ fn_call.depth = DepthSafetyLimit
====
